---- MODULE Spec2Model ----
(***************************************************************************)
(* Model of the answer-sheet evaluation pipeline: the Celery tasks of      *)
(* services/background_tasks.py (process_model_answer, process_evaluation, *)
(* process_bulk_evaluation), the record store operations of models/*.py    *)
(* they call, the extraction and scoring stages, and the route handlers    *)
(* that create records and submit tasks.                                   *)
(*                                                                         *)
(* Granularity.  A route handler is one action.  A task is a sequence of   *)
(* steps, one per record-store write (its preceding reads and local        *)
(* computation are part of the step), so that tasks interleave wherever    *)
(* two workers can interleave their writes.                                *)
(*                                                                         *)
(* Values.  None is the empty tuple; every nullable field holds a tuple    *)
(* or a record when it is set.  A text is the non-empty sequence of its    *)
(* page segments (the segments joined by "\n\n" in the code).              *)
(***************************************************************************)
EXTENDS Integers, Sequences, FiniteSets, TLC

VARIABLES
    schemes,    \* db.evaluation_schemes : scheme id -> document
    sheets,     \* db.answer_sheets      : sheet id  -> document
    results,    \* db.evaluation_results : sequence of documents, in insertion order
    files,      \* GridFS                : file id   -> stored document
    tasks,      \* Celery                : task id   -> message and execution state
    nextScheme, \* number of scheme documents inserted so far
    nextSheet,  \* number of sheet documents inserted so far
    faults,     \* number of environment faults injected so far
    ocrCall,    \* the activation of extract_text_from_pdf that is followed step by step
    evalCall,   \* the call of evaluate_answer that is followed
    bulkLoop,   \* the loop of process_bulk_evaluation that is followed on its own
    httpCall,   \* the request to POST /api/evaluate/bulk that is followed, and its response
    worker,     \* the module globals of the worker process that is followed, and its jobs
    imageCall   \* one activation of ocr_service.extract_text_from_image, followed step by step

vars == <<schemes, sheets, results, files, tasks, nextScheme, nextSheet, faults,
          ocrCall, evalCall, bulkLoop, httpCall, worker, imageCall>>

-----------------------------------------------------------------------------
(* Bounds of the model *)

MaxTasks == 3      \* Celery messages submitted in one behaviour
MaxFaults == 1     \* environment faults injected in one behaviour
Workers == 2       \* worker processes of the Celery worker
BulkSheets == 6    \* sheets of the bulk scenario

MaxSchemes == 1   \* schemes the teacher creates
MaxSheets == 1     \* answer sheets uploaded
MaxPages == 2      \* pages of a document whose extraction is followed step by step
MaxKeywords == 3   \* keywords of the model answer in a call of evaluate_answer
MaxIds == 12       \* sheet ids given to a process_bulk_evaluation whose loop is followed
MaxHttpSheets == 2 \* sheets in the store when a bulk request is followed
MaxHttpIds == 3    \* ids in the body of that request
MaxJobs == 3       \* jobs the worker process that is followed takes
MaxConfigured == 4 \* largest OPENAI_MAX_RETRIES an extract_text_from_image is followed with

(* Program constants *)

max_retries == 3
countdown == 60                   \* seconds
batch_size == 5
SEMANTIC_SIMILARITY_WEIGHT == 6   \* 0.6, in tenths
KEYWORD_MATCH_WEIGHT == 4         \* 0.4, in tenths
OPENAI_MAX_RETRIES == 3
OPENAI_RETRY_DELAY_SECONDS == 2

-----------------------------------------------------------------------------
(* Values *)

None == <<>>

utcnow == <<"datetime.utcnow()">>

Min(a, b) == IF a < b THEN a ELSE b

Range(s) == {s[i] : i \in DOMAIN s}

(* A stored PDF: whether pdf2image can rasterize it, and the text the      *)
(* vision model reads on each of its pages.                                *)
GoodDoc == [rasterizable |-> TRUE, pages |-> <<"alpha beta">>]
BlankDoc == [rasterizable |-> TRUE, pages |-> <<"">>]
CorruptDoc == [rasterizable |-> FALSE, pages |-> <<>>]
EmptyDoc == [rasterizable |-> TRUE, pages |-> <<>>]

ModelDocs == {GoodDoc, BlankDoc, CorruptDoc}
AnswerDocs == {GoodDoc, EmptyDoc}

(* Inputs of the requests and outcomes of the external models.  Scores in  *)
(* [-1, 1] are integers in units of 1/10000.                               *)
TotalMarksChoices == {10}
SimilarityChoices == {8000}

-----------------------------------------------------------------------------
(* Extraction stage: services/ocr_service.py *)

(* A placeholder that does not name the page. *)
PagePlaceholder_unnumbered(page_num) == "[Error extracting text]"

PagePlaceholder(page_num) ==
    CASE page_num = 1 -> "[Error extracting text from page 1]"
      [] page_num = 2 -> "[Error extracting text from page 2]"
      [] page_num = 3 -> "[Error extracting text from page 3]"
      [] OTHER -> "[Error extracting text from page n]"

(* An extraction that raises when no page could be read. *)
extract_text_from_pdf_all_or_nothing(F, pdf_file_id, failing) ==
    IF pdf_file_id \notin DOMAIN F
    THEN [ok |-> FALSE, error |-> "OCR process failed: File not found"]
    ELSE LET doc == F[pdf_file_id] IN
         IF ~doc.rasterizable
         THEN [ok |-> FALSE, error |-> "Failed to convert PDF to images"]
         ELSE IF doc.pages = <<>>
         THEN [ok |-> FALSE, error |-> "PDF contains no pages"]
         ELSE IF failing = 1..Len(doc.pages)
         THEN [ok |-> FALSE, error |-> "OCR process failed: no page could be read"]
         ELSE [ok |-> TRUE,
               text |-> [k \in 1..Len(doc.pages) |->
                           IF k \in failing THEN PagePlaceholder(k) ELSE doc.pages[k]]]

(* extract_text_from_pdf on the stored files F: `failing` is the set of    *)
(* pages whose extract_text_from_image call ends in an exception.          *)
extract_text_from_pdf(F, pdf_file_id, failing) ==
    IF pdf_file_id \notin DOMAIN F
    THEN [ok |-> FALSE, error |-> "OCR process failed: File not found"]
    ELSE LET doc == F[pdf_file_id] IN
         IF ~doc.rasterizable
         THEN [ok |-> FALSE, error |-> "Failed to convert PDF to images"]
         ELSE IF doc.pages = <<>>
         THEN [ok |-> FALSE, error |-> "PDF contains no pages"]
         ELSE [ok |-> TRUE,
               text |-> [k \in 1..Len(doc.pages) |->
                           IF k \in failing THEN PagePlaceholder(k) ELSE doc.pages[k]]]

PagesOf(F, pdf_file_id) ==
    IF pdf_file_id \in DOMAIN F THEN 1..Len(F[pdf_file_id].pages) ELSE {}

-----------------------------------------------------------------------------
(* Keyword extractor and scoring stage: services/nlp_service.py *)

(* The words spaCy can return, in sorted order. *)
Vocabulary == <<"alpha", "beta", "error", "extract", "page", "text">>

(* Entities, noun-chunk roots and verb/adjective lemmas of one segment. *)
SegmentKeywords(segment) ==
    CASE segment = "" -> {}
      [] segment = "alpha beta" -> {"alpha", "beta"}
      [] OTHER -> {"error", "extract", "page", "text"}

extract_keywords(text) ==
    LET keywords == UNION {SegmentKeywords(text[k]) : k \in DOMAIN text}
    IN  SelectSeq(Vocabulary, LAMBDA w : w \in keywords)

(* round(num / den) as Python 3 rounds: to nearest, ties to even (den > 0) *)
Round(num, den) ==
    LET q == num \div den
        r == num % den
    IN  IF 2 * r < den THEN q
        ELSE IF 2 * r > den THEN q + 1
        ELSE IF q % 2 = 0 THEN q ELSE q + 1

(* The match counted the other way round: the student's keywords found   *)
(* among the model's.                                                     *)
calculate_keyword_match_reversed(model_keywords, student_text) ==
    LET student_keywords == extract_keywords(student_text)
        matching_count == Cardinality({k \in DOMAIN student_keywords :
                                          student_keywords[k] \in Range(model_keywords)})
    IN  IF model_keywords = <<>>
        THEN [num |-> 0, den |-> 1]
        ELSE [num |-> matching_count, den |-> Len(model_keywords)]

(* Number of model keywords found among the student's, and their number. *)
calculate_keyword_match(model_keywords, student_text) ==
    LET student_keywords == Range(extract_keywords(student_text))
        matching_count == Cardinality({k \in DOMAIN model_keywords :
                                          model_keywords[k] \in student_keywords})
    IN  IF model_keywords = <<>>
        THEN [num |-> 0, den |-> 1]
        ELSE [num |-> matching_count, den |-> Len(model_keywords)]

(* The format "{x:.1%}" of x = num / den: x in thousandths, rounded. *)
PerMille(num, den) == Round(num * 1000, den)

(* The sentence both fallbacks start with, the two sub-scores embedded. *)
Template(similarity_score, keyword_score) ==
    <<"Answer evaluated with ", PerMille(similarity_score, 10000),
      "% semantic similarity and ", PerMille(keyword_score.num, keyword_score.den),
      "% keyword coverage.">>

(* The outcome of the narrative call: the chat model answers, the call    *)
(* raises, or openai_client was never initialised.                        *)
NarrativeOutcomes == {"content", "api error", "no client"}

(* generate_feedback: without a client it raises; a call that raises is   *)
(* answered by the template followed by one more sentence.                *)
generate_feedback(similarity_score, keyword_score, narrative) ==
    CASE narrative = "no client" ->
           [ok |-> FALSE, error |-> "OpenAI client not initialized"]
      [] narrative = "content" ->
           [ok |-> TRUE, feedback |-> <<"content">>]
      [] OTHER ->
           [ok |-> TRUE,
            feedback |-> Template(similarity_score, keyword_score)
                         \o <<" Review your answer against the model answer for improvement areas.">>]

(* evaluate_answer with the percentage cut after two decimals. *)
evaluate_answer_truncating(student_text, model_text, model_keywords, total_marks, similarity, narrative) ==
    LET kw == calculate_keyword_match(model_keywords, student_text)
        hnum == total_marks * (similarity * SEMANTIC_SIMILARITY_WEIGHT * kw.den
                               + kw.num * 10000 * KEYWORD_MATCH_WEIGHT)
        hden == 100000 * kw.den
        total_score == Round(hnum, hden)
        generated == generate_feedback(similarity, kw, narrative)
    IN  [total_score |-> total_score,
         max_score |-> total_marks,
         percentage |-> IF total_marks > 0 THEN (total_score * 10000) \div total_marks ELSE 0,
         semantic_similarity_score |-> similarity,
         keyword_match_score |-> Round(kw.num * 10000, kw.den),
         detailed_feedback |-> IF generated.ok THEN generated.feedback
                               ELSE Template(similarity, kw)]

(* evaluate_answer without the try block around generate_feedback. *)
evaluate_answer_unguarded(student_text, model_text, model_keywords, total_marks, similarity, narrative) ==
    LET kw == calculate_keyword_match(model_keywords, student_text)
        hnum == total_marks * (similarity * SEMANTIC_SIMILARITY_WEIGHT * kw.den
                               + kw.num * 10000 * KEYWORD_MATCH_WEIGHT)
        hden == 100000 * kw.den
        total_score == Round(hnum, hden)
        generated == generate_feedback(similarity, kw, narrative)
    IN  IF ~generated.ok THEN [error |-> generated.error]
        ELSE [total_score |-> total_score,
              max_score |-> total_marks,
              percentage |-> IF total_marks > 0 THEN Round(total_score * 10000, total_marks) ELSE 0,
              semantic_similarity_score |-> similarity,
              keyword_match_score |-> Round(kw.num * 10000, kw.den),
              detailed_feedback |-> generated.feedback]

(* evaluate_answer with the two weights exchanged. *)
evaluate_answer_swapped(student_text, model_text, model_keywords, total_marks, similarity, narrative) ==
    LET kw == calculate_keyword_match(model_keywords, student_text)
        hnum == total_marks * (similarity * KEYWORD_MATCH_WEIGHT * kw.den
                               + kw.num * 10000 * SEMANTIC_SIMILARITY_WEIGHT)
        hden == 100000 * kw.den
        total_score == Round(hnum, hden)
        generated == generate_feedback(similarity, kw, narrative)
    IN  [total_score |-> total_score,
         max_score |-> total_marks,
         percentage |-> IF total_marks > 0 THEN Round(total_score * 10000, total_marks) ELSE 0,
         semantic_similarity_score |-> similarity,
         keyword_match_score |-> Round(kw.num * 10000, kw.den),
         detailed_feedback |-> IF generated.ok THEN generated.feedback
                               ELSE Template(similarity, kw)]

(* evaluate_answer: `similarity` is what the sentence model returns (units *)
(* of 1/10000), `narrative` the outcome of generate_feedback's call.  An   *)
(* exception of generate_feedback is answered by the template.             *)
(* total_score is in marks, percentage in hundredths of a percent, the two *)
(* rounded sub-scores in 1/10000.                                          *)
evaluate_answer(student_text, model_text, model_keywords, total_marks, similarity, narrative) ==
    LET kw == calculate_keyword_match(model_keywords, student_text)
        \* hybrid * total_marks = hnum / hden
        hnum == total_marks * (similarity * SEMANTIC_SIMILARITY_WEIGHT * kw.den
                               + kw.num * 10000 * KEYWORD_MATCH_WEIGHT)
        hden == 100000 * kw.den
        total_score == Round(hnum, hden)
        generated == generate_feedback(similarity, kw, narrative)
    IN  [total_score |-> total_score,
         max_score |-> total_marks,
         percentage |-> IF total_marks > 0 THEN Round(total_score * 10000, total_marks) ELSE 0,
         semantic_similarity_score |-> similarity,
         keyword_match_score |-> Round(kw.num * 10000, kw.den),
         detailed_feedback |-> IF generated.ok THEN generated.feedback
                               ELSE Template(similarity, kw)]

-----------------------------------------------------------------------------
(* Record store: models/evaluation_scheme.py *)

ModelFile(scheme_id) == <<"model_answer", scheme_id>>
AnswerFile(sheet_id) == <<"student_answer", sheet_id>>

(* The document create_scheme inserts; it has no error_message field. *)
create_scheme(scheme_id, total_marks) ==
    [total_marks |-> total_marks,
     model_answer_file_id |-> ModelFile(scheme_id),
     extracted_text |-> None,
     keywords |-> <<>>,
     status |-> "processing"]

(* update_one({'_id': scheme_id}, {'$set': updates}) on the collection M:  *)
(* a missing document is left missing, fields of updates are set or added. *)
update_scheme(M, scheme_id, updates) ==
    IF scheme_id \notin DOMAIN M THEN M
    ELSE [M EXCEPT ![scheme_id] =
              [k \in DOMAIN M[scheme_id] \cup DOMAIN updates |->
                  IF k \in DOMAIN updates THEN updates[k] ELSE M[scheme_id][k]]]

count_answer_sheets(S, scheme_id) ==
    Cardinality({a \in DOMAIN S : S[a].evaluation_scheme_id = scheme_id})

(* Record store: models/answer_sheet.py *)

(* The teacher who sends the requests: current_user['_id']. *)
current_user == 1

create_answer_sheet(sheet_id, scheme_id) ==
    [evaluation_scheme_id |-> scheme_id,
     teacher_id |-> current_user,
     answer_file_id |-> AnswerFile(sheet_id),
     extracted_text |-> None,
     status |-> "pending",
     processed_at |-> None,
     error_message |-> None]

(* update_status without its processed_at. *)
update_status_untimed(S, sheet_id, status) ==
    IF sheet_id \notin DOMAIN S THEN S
    ELSE [S EXCEPT ![sheet_id].status = status]

update_status(S, sheet_id, status) ==
    IF sheet_id \notin DOMAIN S THEN S
    ELSE [S EXCEPT ![sheet_id].status = status,
                   ![sheet_id].processed_at = IF status = "completed" THEN utcnow ELSE @]

update_extracted_text(S, sheet_id, text) ==
    IF sheet_id \notin DOMAIN S THEN S
    ELSE [S EXCEPT ![sheet_id].extracted_text = text]

(* set_error without its processed_at. *)
set_error_untimed(S, sheet_id, error_message) ==
    IF sheet_id \in DOMAIN S
    THEN [S EXCEPT ![sheet_id].status = "failed",
                   ![sheet_id].error_message = error_message]
    ELSE S

set_error(S, sheet_id, error_message) ==
    IF sheet_id \notin DOMAIN S THEN S
    ELSE [S EXCEPT ![sheet_id].status = "failed",
                   ![sheet_id].error_message = error_message,
                   ![sheet_id].processed_at = utcnow]

Without(f, x) == [y \in DOMAIN f \ {x} |-> f[y]]

(* Record store: models/evaluation_result.py *)

find_by_answer_sheet(R, sheet_id) ==
    {i \in DOMAIN R : R[i].answer_sheet_id = sheet_id}

(* The results collection without its unique index. *)
DuplicateKey_unindexed(R, sheet_id) == FALSE

(* The unique index on evaluation_results.answer_sheet_id (app.py):        *)
(* insert_one raises DuplicateKeyError when it would be violated.          *)
DuplicateKey(R, sheet_id) ==
    find_by_answer_sheet(R, sheet_id) # {}

create_result(R, answer_sheet_id, scheme_id, scores) ==
    Append(R, [answer_sheet_id |-> answer_sheet_id,
               evaluation_scheme_id |-> scheme_id,
               total_score |-> scores.total_score,
               max_score |-> scores.max_score,
               percentage |-> scores.percentage,
               semantic_similarity_score |-> scores.semantic_similarity_score,
               keyword_match_score |-> scores.keyword_match_score,
               detailed_feedback |-> scores.detailed_feedback,
               evaluated_at |-> utcnow])

delete_by_answer_sheet(R, sheet_id) ==
    LET hit == find_by_answer_sheet(R, sheet_id) IN
    IF hit = {} THEN R
    ELSE LET first == CHOOSE i \in hit : \A j \in hit : i <= j
         IN  [k \in 1..(Len(R) - 1) |-> IF k < first THEN R[k] ELSE R[k + 1]]

-----------------------------------------------------------------------------
(* Celery: task messages, workers, retries *)

(* delay() / apply_async(): a new message.  scheme, text and exc are the   *)
(* task function's local variables; i and children are those of            *)
(* process_bulk_evaluation's loop; parent is the bulk task whose group the *)
(* message belongs to (0: none); countdowns are the delays, in seconds, of *)
(* the retries scheduled so far.                                           *)
Message(name, arg, ids, parent) ==
    [name |-> name, arg |-> arg, ids |-> ids, parent |-> parent,
     retries |-> 0, state |-> "PENDING", pc |-> "queued",
     scheme |-> None, text |-> None, exc |-> None,
     i |-> 0, children |-> <<>>, countdowns |-> <<>>]

Running(T) == Cardinality({t \in DOMAIN T : T[t].state = "STARTED"})

(* A worker process is free to take message t off the queue. *)
CanStart(t) ==
    /\ tasks[t].state \in {"PENDING", "RETRY"}
    /\ Running(tasks) < Workers

(* Faults of the environment, MaxFaults of them in a behaviour, one in a   *)
(* step.  A record-store call raises before it writes, or (a call that    *)
(* re-reads the document after its write) after the write; the Vision     *)
(* call fails for some pages; the feedback call fails.                    *)
FaultChoices == IF faults < MaxFaults THEN {"none", "before", "after"} ELSE {"none"}

PageFaultChoices(pages) == IF faults < MaxFaults THEN SUBSET pages ELSE {{}}

FeedbackChoices == IF faults < MaxFaults THEN {TRUE, FALSE} ELSE {TRUE}

Inject(f) == faults' = IF f = "none" THEN faults ELSE faults + 1

(* The task function raises e inside its try block. *)
Raise(T, t, e) ==
    [T EXCEPT ![t].state = "STARTED", ![t].pc = "except", ![t].exc = <<e>>]

(* The end of the except blocks with a delay that doubles at each retry. *)
RetryOrFail_backoff(T, t) ==
    IF T[t].retries < max_retries
    THEN [T EXCEPT ![t].state = "RETRY", ![t].pc = "queued",
                   ![t].retries = @ + 1,
                   ![t].countdowns = Append(@, countdown * 2 ^ T[t].retries),
                   ![t].scheme = None, ![t].text = None, ![t].exc = None]
    ELSE [T EXCEPT ![t].state = "FAILURE", ![t].pc = "done"]

(* The end of the except blocks with the comparison off by one. *)
RetryOrFail_once_more(T, t) ==
    IF T[t].retries <= max_retries
    THEN [T EXCEPT ![t].state = "RETRY", ![t].pc = "queued",
                   ![t].retries = @ + 1,
                   ![t].countdowns = Append(@, countdown),
                   ![t].scheme = None, ![t].text = None, ![t].exc = None]
    ELSE [T EXCEPT ![t].state = "FAILURE", ![t].pc = "done"]

(* The end of both except blocks: self.retry(exc=e, countdown=60) while    *)
(* self.request.retries < self.max_retries, else the task fails.           *)
RetryOrFail(T, t) ==
    IF T[t].retries < max_retries
    THEN [T EXCEPT ![t].state = "RETRY", ![t].pc = "queued",
                   ![t].retries = @ + 1,
                   ![t].countdowns = Append(@, countdown),
                   ![t].scheme = None, ![t].text = None, ![t].exc = None]
    ELSE [T EXCEPT ![t].state = "FAILURE", ![t].pc = "done"]

Succeed(T, t) ==
    [T EXCEPT ![t].state = "SUCCESS", ![t].pc = "done"]

(* "if db is None: init_celery_db()" stands before the try block: when the *)
(* worker process that takes the message has no connection yet and        *)
(* init_celery_db raises (nlp_service.init_models raises NLPException),    *)
(* the exception leaves the task function past both except blocks.        *)
InitError == "Failed to initialize NLP models"

InitFails(t) ==
    /\ CanStart(t)
    /\ faults < MaxFaults
    /\ Inject("init")
    /\ tasks' = [tasks EXCEPT ![t].state = "FAILURE", ![t].pc = "done",
                              ![t].exc = <<InitError>>]
    /\ UNCHANGED <<ocrCall, evalCall, bulkLoop, httpCall, worker, imageCall, schemes, sheets, results, files, nextScheme, nextSheet>>

-----------------------------------------------------------------------------
(* services/background_tasks.py: process_evaluation *)

(* The messages of the exceptions the steps raise. *)
NotReadyError == "Model answer is not ready. Please wait for processing to complete."
DuplicateKeyError == "E11000 duplicate key error"
StoreError == "record store error"

(* "Verify scheme is ready": the guard on the scheme document just read. *)
SchemeReady_unguarded(scheme) == TRUE

SchemeReady(scheme) == scheme.status = "ready"

(* A worker starts the task: fetch the sheet, fetch its scheme, verify the *)
(* scheme is ready, answer_sheet.update_status(answer_sheet_id,            *)
(* 'processing').                                                          *)
EvalStart(t, f) ==
    /\ tasks[t].name = "process_evaluation"
    /\ CanStart(t)
    /\ f \in FaultChoices
    /\ Inject(f)
    /\ LET answer_sheet_id == tasks[t].arg IN
       IF answer_sheet_id \notin DOMAIN sheets
       THEN /\ tasks' = Raise(tasks, t, "Answer sheet not found")
            /\ f = "none"
            /\ UNCHANGED sheets
       ELSE LET scheme_id == sheets[answer_sheet_id].evaluation_scheme_id IN
            IF scheme_id \notin DOMAIN schemes
            THEN /\ tasks' = Raise(tasks, t, "Evaluation scheme not found")
                 /\ f = "none"
                 /\ UNCHANGED sheets
            ELSE LET scheme == [id |-> scheme_id, doc |-> schemes[scheme_id]]
                     fetched == [tasks EXCEPT ![t].scheme = scheme]
                 IN  IF ~SchemeReady(scheme.doc)
                     THEN /\ tasks' = Raise(fetched, t, NotReadyError)
                          /\ f = "none"
                          /\ UNCHANGED sheets
                     ELSE /\ sheets' = IF f = "before" THEN sheets
                                       ELSE update_status(sheets, answer_sheet_id, "processing")
                          /\ tasks' = IF f = "none"
                                      THEN [fetched EXCEPT ![t].state = "STARTED",
                                                           ![t].pc = "extract"]
                                      ELSE Raise(fetched, t, StoreError)
    /\ UNCHANGED <<ocrCall, evalCall, bulkLoop, httpCall, worker, imageCall, schemes, results, files, nextScheme, nextSheet>>

(* An extraction step that goes on to scoring without storing the text. *)
EvalExtract_unsaved(t, f) ==
    /\ tasks[t].name = "process_evaluation"
    /\ tasks[t].pc = "extract"
    /\ \E failing \in PageFaultChoices(PagesOf(files, AnswerFile(tasks[t].arg))) :
       LET ocr == extract_text_from_pdf(files, AnswerFile(tasks[t].arg), failing) IN
       IF ~ocr.ok
       THEN /\ f = "none"
            /\ tasks' = Raise(tasks, t, ocr.error)
            /\ UNCHANGED <<sheets, faults>>
       ELSE /\ f \in FaultChoices
            /\ failing # {} => f = "none"
            /\ Inject(IF failing # {} THEN "page" ELSE f)
            /\ sheets' = sheets
            /\ tasks' = IF f = "none"
                        THEN [tasks EXCEPT ![t].pc = "evaluate", ![t].text = ocr.text]
                        ELSE Raise(tasks, t, StoreError)
    /\ UNCHANGED <<ocrCall, evalCall, bulkLoop, httpCall, worker, imageCall, schemes, results, files, nextScheme, nextSheet>>

(* ocr_service.extract_text_from_pdf(sheet['answer_file_id']), then        *)
(* answer_sheet.update_extracted_text(answer_sheet_id, extracted_text)     *)
EvalExtract(t, f) ==
    /\ tasks[t].name = "process_evaluation"
    /\ tasks[t].pc = "extract"
    /\ \E failing \in PageFaultChoices(PagesOf(files, AnswerFile(tasks[t].arg))) :
       LET ocr == extract_text_from_pdf(files, AnswerFile(tasks[t].arg), failing) IN
       IF ~ocr.ok
       THEN /\ f = "none"
            /\ tasks' = Raise(tasks, t, ocr.error)
            /\ UNCHANGED <<sheets, faults>>
       ELSE /\ f \in FaultChoices
            /\ failing # {} => f = "none"
            /\ Inject(IF failing # {} THEN "page" ELSE f)
            /\ sheets' = IF f = "before" THEN sheets
                         ELSE update_extracted_text(sheets, tasks[t].arg, ocr.text)
            /\ tasks' = IF f = "none"
                        THEN [tasks EXCEPT ![t].pc = "evaluate", ![t].text = ocr.text]
                        ELSE Raise(tasks, t, StoreError)
    /\ UNCHANGED <<ocrCall, evalCall, bulkLoop, httpCall, worker, imageCall, schemes, results, files, nextScheme, nextSheet>>

(* nlp_service.evaluate_answer(...), then evaluation_result.create_result  *)
EvalScore(t, f, similarity, narrative) ==
    /\ tasks[t].name = "process_evaluation"
    /\ tasks[t].pc = "evaluate"
    /\ f \in FaultChoices \ {"after"}
    /\ narrative \in FeedbackChoices
    /\ ~narrative => f = "none"
    /\ Inject(IF narrative THEN f ELSE "feedback")
    /\ LET scheme == tasks[t].scheme
           evaluation_result_data ==
               evaluate_answer(tasks[t].text, scheme.doc.extracted_text,
                               scheme.doc.keywords, scheme.doc.total_marks,
                               similarity,
                               IF narrative THEN "content" ELSE "api error")
       IN  IF f = "before"
           THEN /\ tasks' = Raise(tasks, t, StoreError)
                /\ UNCHANGED results
           ELSE IF DuplicateKey(results, tasks[t].arg)
           THEN /\ tasks' = Raise(tasks, t, DuplicateKeyError)
                /\ UNCHANGED results
           ELSE /\ results' = create_result(results, tasks[t].arg, scheme.id,
                                            evaluation_result_data)
                /\ tasks' = [tasks EXCEPT ![t].pc = "update_completed"]
    /\ UNCHANGED <<ocrCall, evalCall, bulkLoop, httpCall, worker, imageCall, schemes, sheets, files, nextScheme, nextSheet>>

(* answer_sheet.update_status(answer_sheet_id, 'completed'); return *)
EvalCompleted(t, f) ==
    /\ tasks[t].name = "process_evaluation"
    /\ tasks[t].pc = "update_completed"
    /\ f \in FaultChoices
    /\ Inject(f)
    /\ sheets' = IF f = "before" THEN sheets
                 ELSE update_status(sheets, tasks[t].arg, "completed")
    /\ tasks' = IF f = "none" THEN Succeed(tasks, t)
                ELSE Raise(tasks, t, StoreError)
    /\ UNCHANGED <<ocrCall, evalCall, bulkLoop, httpCall, worker, imageCall, schemes, results, files, nextScheme, nextSheet>>

(* An except block that also marks the scheme of the task as failed. *)
EvalExcept_marking_scheme(t, f) ==
    /\ tasks[t].name = "process_evaluation"
    /\ tasks[t].pc = "except"
    /\ f \in FaultChoices \ {"after"}
    /\ Inject(f)
    /\ sheets' = IF f = "before" THEN sheets
                 ELSE set_error(sheets, tasks[t].arg,
                                <<"Evaluation failed: ", tasks[t].exc[1]>>)
    /\ schemes' = IF tasks[t].scheme = None THEN schemes
                  ELSE update_scheme(schemes, tasks[t].scheme.id, [status |-> "failed"])
    /\ tasks' = RetryOrFail(tasks, t)
    /\ UNCHANGED <<ocrCall, evalCall, bulkLoop, httpCall, worker, imageCall, results, files, nextScheme, nextSheet>>

(* except Exception as e: set_error (its own failure swallowed), then      *)
(* retry or fail.                                                          *)
EvalExcept(t, f) ==
    /\ tasks[t].name = "process_evaluation"
    /\ tasks[t].pc = "except"
    /\ f \in FaultChoices \ {"after"}
    /\ Inject(f)
    /\ sheets' = IF f = "before" THEN sheets
                 ELSE set_error(sheets, tasks[t].arg,
                                <<"Evaluation failed: ", tasks[t].exc[1]>>)
    /\ tasks' = RetryOrFail(tasks, t)
    /\ UNCHANGED <<ocrCall, evalCall, bulkLoop, httpCall, worker, imageCall, schemes, results, files, nextScheme, nextSheet>>

process_evaluation(t) ==
    \/ tasks[t].name = "process_evaluation" /\ InitFails(t)
    \/ \E f \in {"none", "before", "after"} :
          \/ EvalStart(t, f)
          \/ EvalExtract(t, f)
          \/ \E similarity \in SimilarityChoices, narrative \in BOOLEAN :
                EvalScore(t, f, similarity, narrative)
          \/ EvalCompleted(t, f)
          \/ EvalExcept(t, f)

-----------------------------------------------------------------------------
(* services/background_tasks.py: process_model_answer *)

(* A worker starts the task and fetches the scheme. *)
PrepFetch(t, f) ==
    /\ tasks[t].name = "process_model_answer"
    /\ CanStart(t)
    /\ f \in FaultChoices \ {"after"}
    /\ Inject(f)
    /\ tasks' =
         IF f = "before"
         THEN Raise(tasks, t, StoreError)
         ELSE IF tasks[t].arg \notin DOMAIN schemes
         THEN Raise(tasks, t, "Evaluation scheme not found")
         ELSE [tasks EXCEPT ![t].state = "STARTED", ![t].pc = "extract",
                            ![t].scheme = [id |-> tasks[t].arg,
                                           doc |-> schemes[tasks[t].arg]]]
    /\ UNCHANGED <<ocrCall, evalCall, bulkLoop, httpCall, worker, imageCall, schemes, sheets, results, files, nextScheme, nextSheet>>

(* extract_text_from_pdf, extract_keywords, then one update_scheme call    *)
(* that sets extracted_text, keywords and status 'ready'; return.          *)
PrepExtract(t, f) ==
    /\ tasks[t].name = "process_model_answer"
    /\ tasks[t].pc = "extract"
    /\ \E failing \in PageFaultChoices(PagesOf(files, tasks[t].scheme.doc.model_answer_file_id)) :
       LET ocr == extract_text_from_pdf(files, tasks[t].scheme.doc.model_answer_file_id,
                                        failing) IN
       IF ~ocr.ok
       THEN /\ f = "none"
            /\ tasks' = Raise(tasks, t, ocr.error)
            /\ UNCHANGED <<schemes, faults>>
       ELSE /\ f \in FaultChoices
            /\ failing # {} => f = "none"
            /\ Inject(IF failing # {} THEN "page" ELSE f)
            /\ schemes' = IF f = "before" THEN schemes
                          ELSE update_scheme(schemes, tasks[t].arg,
                                             [extracted_text |-> ocr.text,
                                              keywords |-> extract_keywords(ocr.text),
                                              status |-> "ready"])
            /\ tasks' = IF f = "none" THEN Succeed(tasks, t)
                        ELSE Raise(tasks, t, StoreError)
    /\ UNCHANGED <<ocrCall, evalCall, bulkLoop, httpCall, worker, imageCall, sheets, results, files, nextScheme, nextSheet>>

(* except Exception as e: update_scheme to 'failed' with the message (its  *)
(* own failure swallowed), then retry or fail.                             *)
PrepExcept(t, f) ==
    /\ tasks[t].name = "process_model_answer"
    /\ tasks[t].pc = "except"
    /\ f \in FaultChoices \ {"after"}
    /\ Inject(f)
    /\ schemes' = IF f = "before" THEN schemes
                  ELSE update_scheme(schemes, tasks[t].arg,
                                     [status |-> "failed",
                                      error_message |-> <<"Failed to process model answer: ",
                                                          tasks[t].exc[1]>>])
    /\ tasks' = RetryOrFail(tasks, t)
    /\ UNCHANGED <<ocrCall, evalCall, bulkLoop, httpCall, worker, imageCall, sheets, results, files, nextScheme, nextSheet>>

process_model_answer(t) ==
    \/ tasks[t].name = "process_model_answer" /\ InitFails(t)
    \/ \E f \in {"none", "before", "after"} :
          \/ PrepFetch(t, f)
          \/ PrepExtract(t, f)
          \/ PrepExcept(t, f)

-----------------------------------------------------------------------------
(* services/background_tasks.py: process_bulk_evaluation *)

(* A slice that takes one id too many. *)
Batch_overlapping(answer_sheet_ids, i) ==
    SubSeq(answer_sheet_ids, i + 1, Min(i + batch_size + 1, Len(answer_sheet_ids)))

(* batch = answer_sheet_ids[i:i + batch_size] *)
Batch(answer_sheet_ids, i) ==
    SubSeq(answer_sheet_ids, i + 1, Min(i + batch_size, Len(answer_sheet_ids)))

(* group(process_evaluation.s(sheet_id) for sheet_id in batch).apply_async() *)
(* One loop iteration up to the wait: the first one starts the task.       *)
BulkApplyAsync(t) ==
    /\ tasks[t].name = "process_bulk_evaluation"
    /\ CanStart(t) \/ (tasks[t].state = "STARTED" /\ tasks[t].pc = "apply_async")
    /\ LET batch == Batch(tasks[t].ids, tasks[t].i)
           started == [tasks EXCEPT ![t].state = "STARTED", ![t].pc = "get",
                                    ![t].children = [k \in 1..Len(batch) |-> Len(tasks) + k]]
       IN  tasks' = started \o [k \in 1..Len(batch) |->
                                  Message("process_evaluation", batch[k], <<>>, t)]
    /\ UNCHANGED <<ocrCall, evalCall, bulkLoop, httpCall, worker, imageCall, schemes, sheets, results, files, nextScheme, nextSheet, faults>>

(* A wait that ends as soon as the first member of the group has ended. *)
BulkGet_first_member(t) ==
    /\ tasks[t].name = "process_bulk_evaluation"
    /\ tasks[t].state = "STARTED"
    /\ tasks[t].pc = "get"
    /\ LET first == tasks[t].children[1] IN
       /\ tasks[first].state \in {"SUCCESS", "FAILURE"}
       /\ tasks' =
            IF tasks[first].state = "FAILURE"
            THEN [Succeed(tasks, t) EXCEPT
                     ![t].exc = <<"Bulk evaluation failed: ", tasks[first].exc[1]>>]
            ELSE IF tasks[t].i + batch_size < Len(tasks[t].ids)
            THEN [tasks EXCEPT ![t].i = @ + batch_size, ![t].pc = "apply_async"]
            ELSE [Succeed(tasks, t) EXCEPT ![t].i = @ + batch_size]
    /\ UNCHANGED <<ocrCall, evalCall, bulkLoop, httpCall, worker, imageCall, schemes, sheets, results, files, nextScheme, nextSheet, faults>>

(* result.get() on the group: it waits for the members in order and       *)
(* re-raises the exception of the first member found failed; a member     *)
(* that is queued, running or waiting for a retry is waited for.          *)
(* The exception reaches the task's except block, which returns the error *)
(* summary; otherwise the loop goes on to the next batch or returns.      *)
BulkGet(t) ==
    /\ tasks[t].name = "process_bulk_evaluation"
    /\ tasks[t].state = "STARTED"
    /\ tasks[t].pc = "get"
    /\ LET kids == tasks[t].children
           unfinished == {k \in DOMAIN kids : tasks[kids[k]].state # "SUCCESS"}
       IN  IF unfinished = {}
           THEN tasks' =
                  IF tasks[t].i + batch_size < Len(tasks[t].ids)
                  THEN [tasks EXCEPT ![t].i = @ + batch_size, ![t].pc = "apply_async"]
                  ELSE [Succeed(tasks, t) EXCEPT ![t].i = @ + batch_size]
           ELSE LET first == CHOOSE k \in unfinished : \A j \in unfinished : k <= j IN
                /\ tasks[kids[first]].state = "FAILURE"
                /\ tasks' = [Succeed(tasks, t) EXCEPT
                               ![t].exc = <<"Bulk evaluation failed: ",
                                            tasks[kids[first]].exc[1]>>]
    /\ UNCHANGED <<ocrCall, evalCall, bulkLoop, httpCall, worker, imageCall, schemes, sheets, results, files, nextScheme, nextSheet, faults>>

process_bulk_evaluation(t) ==
    \/ BulkApplyAsync(t)
    \/ BulkGet(t)

-----------------------------------------------------------------------------
(* Route handlers: routes/evaluation_schemes.py, routes/answer_sheets.py,  *)
(* routes/evaluation.py.  There is one teacher, who owns every record.     *)

(* POST /api/evaluation-schemes: store the model answer, insert the scheme *)
(* in 'processing', submit process_model_answer.                           *)
create_scheme_route(doc, total_marks) ==
    /\ LET scheme_id == nextScheme + 1 IN
       /\ nextScheme' = scheme_id
       /\ files' = (ModelFile(scheme_id) :> doc) @@ files
       /\ schemes' = (scheme_id :> create_scheme(scheme_id, total_marks)) @@ schemes
       /\ tasks' = Append(tasks, Message("process_model_answer", scheme_id, <<>>, 0))
    /\ UNCHANGED <<ocrCall, evalCall, bulkLoop, httpCall, worker, imageCall, sheets, results, nextSheet, faults>>

(* DELETE /api/evaluation-schemes/:id, refused while sheets refer to it. *)
delete_scheme_route(scheme_id) ==
    /\ scheme_id \in DOMAIN schemes
    /\ count_answer_sheets(sheets, scheme_id) = 0
    /\ files' = Without(files, schemes[scheme_id].model_answer_file_id)
    /\ schemes' = Without(schemes, scheme_id)
    /\ UNCHANGED <<ocrCall, evalCall, bulkLoop, httpCall, worker, imageCall, sheets, results, tasks, nextScheme, nextSheet, faults>>

(* POST /api/answer-sheets/bulk with one file: store it, insert the sheet  *)
(* in 'pending'.  The scheme must exist; it need not be ready.             *)
bulk_upload(scheme_id, doc) ==
    /\ scheme_id \in DOMAIN schemes
    /\ LET sheet_id == nextSheet + 1 IN
       /\ nextSheet' = sheet_id
       /\ files' = (AnswerFile(sheet_id) :> doc) @@ files
       /\ sheets' = (sheet_id :> create_answer_sheet(sheet_id, scheme_id)) @@ sheets
    /\ UNCHANGED <<ocrCall, evalCall, bulkLoop, httpCall, worker, imageCall, schemes, results, tasks, nextScheme, faults>>

(* DELETE /api/answer-sheets/:id: the file, the result, the sheet. *)
delete_answer_sheet(sheet_id) ==
    /\ sheet_id \in DOMAIN sheets
    /\ files' = Without(files, sheets[sheet_id].answer_file_id)
    /\ results' = delete_by_answer_sheet(results, sheet_id)
    /\ sheets' = Without(sheets, sheet_id)
    /\ UNCHANGED <<ocrCall, evalCall, bulkLoop, httpCall, worker, imageCall, schemes, tasks, nextScheme, nextSheet, faults>>

(* POST /api/evaluate/:answer_sheet_id: 202 and a process_evaluation task  *)
(* when the sheet exists, is the caller's, has no result and its scheme is *)
(* ready.                                                                 *)
trigger_evaluation(answer_sheet_id) ==
    /\ answer_sheet_id \in DOMAIN sheets
    /\ sheets[answer_sheet_id].teacher_id = current_user
    /\ find_by_answer_sheet(results, answer_sheet_id) = {}
    /\ sheets[answer_sheet_id].evaluation_scheme_id \in DOMAIN schemes
    /\ schemes[sheets[answer_sheet_id].evaluation_scheme_id].status = "ready"
    /\ tasks' = Append(tasks, Message("process_evaluation", answer_sheet_id, <<>>, 0))
    /\ UNCHANGED <<ocrCall, evalCall, bulkLoop, httpCall, worker, imageCall, schemes, sheets, results, files, nextScheme, nextSheet, faults>>

(* valid_ids without the check of the owner. *)
valid_ids_any_owner(sheet_ids) ==
    SelectSeq(sheet_ids, LAMBDA sheet_id :
                  /\ sheet_id \in DOMAIN sheets
                  /\ find_by_answer_sheet(results, sheet_id) = {})

(* valid_ids of POST /api/evaluate/bulk: the requested ids, in order, whose *)
(* sheet exists, belongs to the caller and has no result.                   *)
valid_ids(sheet_ids) ==
    SelectSeq(sheet_ids, LAMBDA sheet_id :
                  /\ sheet_id \in DOMAIN sheets
                  /\ sheets[sheet_id].teacher_id = current_user
                  /\ find_by_answer_sheet(results, sheet_id) = {})

(* POST /api/evaluate/bulk: 202 and a process_bulk_evaluation task when    *)
(* some requested id is valid.                                             *)
trigger_bulk_evaluation(sheet_ids) ==
    /\ sheet_ids # <<>>
    /\ valid_ids(sheet_ids) # <<>>
    /\ tasks' = Append(tasks, Message("process_bulk_evaluation", 0, valid_ids(sheet_ids), 0))
    /\ UNCHANGED <<ocrCall, evalCall, bulkLoop, httpCall, worker, imageCall, schemes, sheets, results, files, nextScheme, nextSheet, faults>>

-----------------------------------------------------------------------------
(* The service after start-up: an empty record store, an empty file store  *)
(* and no message on the broker.                                           *)
Init ==
    /\ schemes = <<>>
    /\ sheets = <<>>
    /\ results = <<>>
    /\ files = <<>>
    /\ tasks = <<>>
    /\ nextScheme = 0
    /\ nextSheet = 0
    /\ faults = 0
    /\ ocrCall = None
    /\ evalCall = None
    /\ bulkLoop = None
    /\ httpCall = None
    /\ worker = None
    /\ imageCall = None

SheetIdLists(n) == UNION {[1..k -> 1..MaxSheets] : k \in 1..n}

(* The requests of the teacher, while the bounds on records and messages   *)
(* allow.                                                                  *)
Requests ==
    \/ /\ nextScheme < MaxSchemes
       /\ Len(tasks) < MaxTasks
       /\ \E doc \in ModelDocs, total_marks \in TotalMarksChoices :
             create_scheme_route(doc, total_marks)
    \/ \E scheme_id \in DOMAIN schemes : delete_scheme_route(scheme_id)
    \/ /\ nextSheet < MaxSheets
       /\ \E scheme_id \in DOMAIN schemes, doc \in AnswerDocs :
             bulk_upload(scheme_id, doc)
    \/ \E sheet_id \in DOMAIN sheets : delete_answer_sheet(sheet_id)
    \/ /\ Len(tasks) < MaxTasks
       /\ \E sheet_id \in DOMAIN sheets : trigger_evaluation(sheet_id)
    \/ \E sheet_ids \in SheetIdLists(MaxTasks - 1) :
          /\ Len(tasks) + 1 + Len(valid_ids(sheet_ids)) <= MaxTasks
          /\ trigger_bulk_evaluation(sheet_ids)

(* The workers: one step of one task. *)
Work ==
    \/ \E t \in DOMAIN tasks : process_model_answer(t)
    \/ \E t \in DOMAIN tasks : process_evaluation(t)
    \/ \E t \in DOMAIN tasks : process_bulk_evaluation(t)

Next == Requests \/ Work

Spec == Init /\ [][Next]_vars

-----------------------------------------------------------------------------
(* The bulk scenario: one ready scheme and BulkSheets pending sheets, at   *)
(* most one of them a PDF without pages, in an environment without faults. *)
(* The teacher requests the evaluation of all of them at once.             *)

ReadyScheme(scheme_id, total_marks) ==
    LET ocr == extract_text_from_pdf((ModelFile(scheme_id) :> GoodDoc),
                                     ModelFile(scheme_id), {})
    IN  update_scheme((scheme_id :> create_scheme(scheme_id, total_marks)), scheme_id,
                      [extracted_text |-> ocr.text,
                       keywords |-> extract_keywords(ocr.text),
                       status |-> "ready"])

InitBulk ==
    \E bad \in 0..BulkSheets, total_marks \in TotalMarksChoices :
        /\ schemes = ReadyScheme(1, total_marks)
        /\ sheets = [a \in 1..BulkSheets |-> create_answer_sheet(a, 1)]
        /\ results = <<>>
        /\ files = (ModelFile(1) :> GoodDoc)
                   @@ [x \in {AnswerFile(a) : a \in 1..BulkSheets} |->
                          IF x[2] = bad THEN EmptyDoc ELSE GoodDoc]
        /\ tasks = <<>>
        /\ nextScheme = 1
        /\ nextSheet = BulkSheets
        /\ faults = MaxFaults
        /\ ocrCall = None
        /\ evalCall = None
        /\ bulkLoop = None
        /\ httpCall = None
        /\ worker = None
        /\ imageCall = None

NextBulk ==
    \/ /\ tasks = <<>>
       /\ trigger_bulk_evaluation([k \in 1..BulkSheets |-> k])
    \/ \E t \in DOMAIN tasks : process_evaluation(t)
    \/ \E t \in DOMAIN tasks : process_bulk_evaluation(t)

SpecBulk == InitBulk /\ [][NextBulk]_vars

-----------------------------------------------------------------------------
(* The workers keep working: a step of some task that can be taken is     *)
(* eventually taken.  Nothing obliges the teacher to send a request.       *)
SpecLive == Spec /\ WF_vars(Work)

-----------------------------------------------------------------------------
(* services/ocr_service.py step by step: one call of extract_text_from_pdf *)
(* on a stored document, with the retry loop of extract_text_from_image    *)
(* for each page.                                                          *)

(* str(e) of the exceptions the Vision call raises, as words. *)
ApiErrors == {<<"Error", "code:", "429", "Rate_Limit", "reached">>,
              <<"You", "exceeded", "your", "current", "quota">>,
              <<"Connection", "error.">>}

(* The message compared as it is, without lower(). *)
Lower_as_is(word) == word

(* error_message.lower(), word by word *)
Lower(word) ==
    CASE word = "Rate_Limit" -> "rate_limit"
      [] word = "Error" -> "error"
      [] word = "You" -> "you"
      [] word = "Connection" -> "connection"
      [] OTHER -> word

(* 'rate_limit' in error_message.lower() or 'quota' in error_message.lower() *)
IsRateLimit(error_message) ==
    \E k \in DOMAIN error_message : Lower(error_message[k]) \in {"rate_limit", "quota"}

(* A sleep of retry_delay whatever the attempt. *)
wait_time_fixed(retries) == OPENAI_RETRY_DELAY_SECONDS

(* wait_time = retry_delay * (2 ** (retries - 1)) *)
wait_time(retries) == OPENAI_RETRY_DELAY_SECONDS * 2 ^ (retries - 1)

(* A terminal error that says nothing of the failure. *)
TerminalError_bare(error_message) ==
    IF IsRateLimit(error_message)
    THEN [message |-> "OpenAI API rate limit exceeded"]
    ELSE [message |-> "OpenAI API call failed"]

(* The OCRException extract_text_from_image raises when retries reached   *)
(* max_retries on a failure with message error_message.                   *)
TerminalError(error_message) ==
    IF IsRateLimit(error_message)
    THEN [message |-> "OpenAI API rate limit exceeded"]
    ELSE [message |-> "OpenAI API call failed after {max_retries} retries: {error_message}",
          max_retries |-> OPENAI_MAX_RETRIES,
          error_message |-> error_message]

(* The documents whose extraction is followed. *)
OcrDocs ==
    {CorruptDoc}
    \cup {[rasterizable |-> TRUE, pages |-> pages] :
              pages \in UNION {[1..n -> {"alpha beta", ""}] : n \in 0..MaxPages}}

(* What extract_text_from_image did for one page: the number of Vision    *)
(* calls, the messages of those that failed, the sleeps, in seconds, and   *)
(* the OCRException raised, if any.                                        *)
PageLog == [calls |-> 0, failures |-> <<>>, waits |-> <<>>, raised |-> None]

(* The call extract_text_from_pdf(pdf_file_id) about to start. *)
OcrStart(pdf_file_id) ==
    [pdf_file_id |-> pdf_file_id, pc |-> "download", images |-> <<>>,
     page_num |-> 0, all_text |-> <<>>, retries |-> 0,
     log |-> <<>>, result |-> None]

InitOcr ==
    /\ schemes = <<>>
    /\ sheets = <<>>
    /\ results = <<>>
    /\ tasks = <<>>
    /\ nextScheme = 0
    /\ nextSheet = 0
    /\ faults = 0
    /\ \E doc \in OcrDocs, stored \in BOOLEAN :
          files = IF stored THEN (AnswerFile(1) :> doc) ELSE <<>>
    /\ ocrCall = OcrStart(AnswerFile(1))
    /\ evalCall = None
    /\ bulkLoop = None
    /\ httpCall = None
    /\ worker = None
    /\ imageCall = None

OcrRaise(error) == [ocrCall EXCEPT !.pc = "done", !.result = [ok |-> FALSE, error |-> error]]

(* A page loop whose attempt counter runs on from page to page. *)
NextPage_one_budget(call) ==
    IF call.page_num < Len(call.images)
    THEN [call EXCEPT !.page_num = @ + 1, !.log = Append(@, PageLog)]
    ELSE [call EXCEPT !.pc = "done", !.result = [ok |-> TRUE, text |-> call.all_text]]

(* A page loop that raises when no page could be read. *)
NextPage_all_or_nothing(call) ==
    IF call.page_num < Len(call.images)
    THEN [call EXCEPT !.page_num = @ + 1, !.retries = 0, !.log = Append(@, PageLog)]
    ELSE IF \A k \in DOMAIN call.log : call.log[k].raised # None
    THEN [call EXCEPT !.pc = "done",
                      !.result = [ok |-> FALSE, error |-> "OCR process failed"]]
    ELSE [call EXCEPT !.pc = "done", !.result = [ok |-> TRUE, text |-> call.all_text]]

(* The page loop goes on to the next page, or joins the segments and      *)
(* returns.                                                               *)
NextPage(call) ==
    IF call.page_num < Len(call.images)
    THEN [call EXCEPT !.page_num = @ + 1, !.retries = 0, !.log = Append(@, PageLog)]
    ELSE [call EXCEPT !.pc = "done", !.result = [ok |-> TRUE, text |-> call.all_text]]

(* download_file, convert_from_bytes and the check for pages. *)
OcrOpen ==
    /\ ocrCall # None
    /\ ocrCall.pc = "download"
    /\ ocrCall' =
         IF ocrCall.pdf_file_id \notin DOMAIN files
         THEN OcrRaise("OCR process failed: File not found")
         ELSE IF ~files[ocrCall.pdf_file_id].rasterizable
         THEN OcrRaise("Failed to convert PDF to images")
         ELSE IF files[ocrCall.pdf_file_id].pages = <<>>
         THEN OcrRaise("PDF contains no pages")
         ELSE NextPage([ocrCall EXCEPT !.pc = "page",
                                       !.images = files[ocrCall.pdf_file_id].pages])
    /\ UNCHANGED <<schemes, sheets, results, files, tasks, nextScheme, nextSheet, faults,
                   evalCall, bulkLoop, httpCall, worker, imageCall>>

(* One iteration of the while loop of extract_text_from_image for the     *)
(* current page, the Vision call succeeding: the text is returned and     *)
(* appended to all_text.                                                  *)
ImageCallSucceeds ==
    /\ ocrCall # None
    /\ ocrCall.pc = "page"
    /\ ocrCall.retries < OPENAI_MAX_RETRIES
    /\ LET page_num == ocrCall.page_num IN
       ocrCall' = NextPage([ocrCall EXCEPT
                               !.log[page_num].calls = @ + 1,
                               !.all_text = Append(@, ocrCall.images[page_num])])
    /\ UNCHANGED <<schemes, sheets, results, files, tasks, nextScheme, nextSheet, faults,
                   evalCall, bulkLoop, httpCall, worker, imageCall>>

(* One iteration, the Vision call raising an exception whose str() is      *)
(* error_message: retries is incremented; below max_retries the loop       *)
(* sleeps wait_time and goes round, otherwise it raises, and the page loop *)
(* of extract_text_from_pdf appends the placeholder for the page.          *)
ImageCallFails(error_message) ==
    /\ ocrCall # None
    /\ ocrCall.pc = "page"
    /\ ocrCall.retries < OPENAI_MAX_RETRIES
    /\ LET page_num == ocrCall.page_num
           retries == ocrCall.retries + 1
           called == [ocrCall EXCEPT !.retries = retries,
                                     !.log[page_num].calls = @ + 1,
                                     !.log[page_num].failures = Append(@, error_message)]
       IN  ocrCall' =
             IF retries < OPENAI_MAX_RETRIES
             THEN [called EXCEPT !.log[page_num].waits = Append(@, wait_time(retries))]
             ELSE NextPage([called EXCEPT
                               !.log[page_num].raised = TerminalError(error_message),
                               !.all_text = Append(@, PagePlaceholder(page_num))])
    /\ UNCHANGED <<schemes, sheets, results, files, tasks, nextScheme, nextSheet, faults,
                   evalCall, bulkLoop, httpCall, worker, imageCall>>

NextOcr ==
    \/ OcrOpen
    \/ ImageCallSucceeds
    \/ \E error_message \in ApiErrors : ImageCallFails(error_message)

SpecOcr == InitOcr /\ [][NextOcr]_vars

-----------------------------------------------------------------------------
(* services/nlp_service.py: one call of evaluate_answer, followed from its *)
(* arguments to its return value.  The similarity is whatever the sentence *)
(* model returns for the two texts, a cosine in [-1, 1].                   *)

ScoreSimilarities == {-10000, -500, 0, 3333, 5000, 8000, 10000}
ScoreTotals == {-5, 0, 3, 10, 100}
ScoreVocabulary == {"alpha", "beta", "error"}
ScoreKeywords == UNION {[1..n -> ScoreVocabulary] : n \in 0..MaxKeywords}
ScoreTexts == {<<"alpha beta">>, <<"">>, <<"[Error extracting text from page 1]">>}

InitScore ==
    /\ schemes = <<>>
    /\ sheets = <<>>
    /\ results = <<>>
    /\ files = <<>>
    /\ tasks = <<>>
    /\ nextScheme = 0
    /\ nextSheet = 0
    /\ faults = 0
    /\ ocrCall = None
    /\ bulkLoop = None
    /\ httpCall = None
    /\ worker = None
    /\ imageCall = None
    /\ \E student_text \in ScoreTexts, model_keywords \in ScoreKeywords,
          total_marks \in ScoreTotals, similarity \in ScoreSimilarities,
          narrative \in NarrativeOutcomes :
          evalCall = [student_text |-> student_text, model_text |-> <<"alpha beta">>,
                      model_keywords |-> model_keywords, total_marks |-> total_marks,
                      similarity |-> similarity, narrative |-> narrative,
                      pc |-> "similarity", keyword_match |-> None, result |-> None]

(* calculate_semantic_similarity returned; calculate_keyword_match. *)
ScoreKeywordMatch ==
    /\ evalCall # None
    /\ evalCall.pc = "similarity"
    /\ evalCall' = [evalCall EXCEPT
                       !.pc = "keyword",
                       !.keyword_match = calculate_keyword_match(evalCall.model_keywords,
                                                                 evalCall.student_text)]
    /\ UNCHANGED <<schemes, sheets, results, files, tasks, nextScheme, nextSheet, faults,
                   ocrCall, bulkLoop, httpCall, worker, imageCall>>

(* The hybrid score, the marks, the percentage and the feedback; return. *)
ScoreReturn ==
    /\ evalCall # None
    /\ evalCall.pc = "keyword"
    /\ evalCall' = [evalCall EXCEPT
                       !.pc = "done",
                       !.result = evaluate_answer(evalCall.student_text, evalCall.model_text,
                                                  evalCall.model_keywords, evalCall.total_marks,
                                                  evalCall.similarity, evalCall.narrative)]
    /\ UNCHANGED <<schemes, sheets, results, files, tasks, nextScheme, nextSheet, faults,
                   ocrCall, bulkLoop, httpCall, worker, imageCall>>

NextScore ==
    \/ ScoreKeywordMatch
    \/ ScoreReturn

SpecScore == InitScore /\ [][NextScore]_vars

-----------------------------------------------------------------------------
(* services/background_tasks.py: the loop of process_bulk_evaluation on    *)
(* its own, for lists of up to MaxIds ids.  The jobs of a window are not   *)
(* followed: result.get() returns, or raises because one of them failed.   *)

InitLoop ==
    /\ schemes = <<>>
    /\ sheets = <<>>
    /\ results = <<>>
    /\ files = <<>>
    /\ tasks = <<>>
    /\ nextScheme = 0
    /\ nextSheet = 0
    /\ faults = 0
    /\ ocrCall = None
    /\ evalCall = None
    /\ httpCall = None
    /\ worker = None
    /\ imageCall = None
    /\ \E n \in 0..MaxIds :
          \E answer_sheet_ids \in [1..n -> {1, 2}] :
             bulkLoop = [answer_sheet_ids |-> answer_sheet_ids, i |-> 0, windows |-> <<>>,
                         pc |-> IF n = 0 THEN "return" ELSE "apply_async",
                         summary |-> None]

(* batch = answer_sheet_ids[i:i + batch_size]; job.apply_async() *)
LoopApplyAsync ==
    /\ bulkLoop # None
    /\ bulkLoop.pc = "apply_async"
    /\ bulkLoop' = [bulkLoop EXCEPT
                       !.windows = Append(@, Batch(bulkLoop.answer_sheet_ids, bulkLoop.i)),
                       !.pc = "get"]
    /\ UNCHANGED <<schemes, sheets, results, files, tasks, nextScheme, nextSheet, faults,
                   ocrCall, evalCall, httpCall, worker, imageCall>>

(* result.get() returns: the next value of range(0, len, batch_size), or   *)
(* the end of the loop.                                                    *)
LoopGetReturns ==
    /\ bulkLoop # None
    /\ bulkLoop.pc = "get"
    /\ bulkLoop' = [bulkLoop EXCEPT
                       !.i = @ + batch_size,
                       !.pc = IF bulkLoop.i + batch_size < Len(bulkLoop.answer_sheet_ids)
                              THEN "apply_async" ELSE "return"]
    /\ UNCHANGED <<schemes, sheets, results, files, tasks, nextScheme, nextSheet, faults,
                   ocrCall, evalCall, httpCall, worker, imageCall>>

(* result.get() raises: the except block returns the error summary. *)
LoopGetRaises ==
    /\ bulkLoop # None
    /\ bulkLoop.pc = "get"
    /\ bulkLoop' = [bulkLoop EXCEPT
                       !.pc = "done",
                       !.summary = [total |-> Len(bulkLoop.answer_sheet_ids),
                                    error |-> "Bulk evaluation failed"]]
    /\ UNCHANGED <<schemes, sheets, results, files, tasks, nextScheme, nextSheet, faults,
                   ocrCall, evalCall, httpCall, worker, imageCall>>

(* return {'total': ..., 'message': 'Bulk evaluation completed'} *)
LoopReturn ==
    /\ bulkLoop # None
    /\ bulkLoop.pc = "return"
    /\ bulkLoop' = [bulkLoop EXCEPT
                       !.pc = "done",
                       !.summary = [total |-> Len(bulkLoop.answer_sheet_ids),
                                    message |-> "Bulk evaluation completed"]]
    /\ UNCHANGED <<schemes, sheets, results, files, tasks, nextScheme, nextSheet, faults,
                   ocrCall, evalCall, httpCall, worker, imageCall>>

NextLoop ==
    \/ LoopApplyAsync
    \/ LoopGetReturns
    \/ LoopGetRaises
    \/ LoopReturn

SpecLoop == InitLoop /\ [][NextLoop]_vars

-----------------------------------------------------------------------------
(* routes/evaluation.py: one request to POST /api/evaluate/bulk, followed  *)
(* from its body to its response, on a record store with up to            *)
(* MaxHttpSheets sheets, some of them of another teacher, some with a     *)
(* Result.                                                                 *)

HttpSheetChoices == {"none", "mine", "mine evaluated", "other", "other evaluated"}

HttpRequests == UNION {[1..n -> 1..MaxHttpSheets] : n \in 0..MaxHttpIds}

InitHttp ==
    /\ schemes = ReadyScheme(1, 10)
    /\ files = <<>>
    /\ tasks = <<>>
    /\ nextScheme = 1
    /\ nextSheet = MaxHttpSheets
    /\ faults = 0
    /\ ocrCall = None
    /\ evalCall = None
    /\ bulkLoop = None
    /\ worker = None
    /\ imageCall = None
    /\ \E stored \in [1..MaxHttpSheets -> HttpSheetChoices] :
          LET present == {a \in 1..MaxHttpSheets : stored[a] # "none"}
              evaluated == {a \in present : stored[a] \in {"mine evaluated", "other evaluated"}}
              scores == evaluate_answer(<<"alpha beta">>, <<"alpha beta">>,
                                        <<"alpha", "beta">>, 10, 8000, "content")
          IN  /\ sheets = [a \in present |->
                             [create_answer_sheet(a, 1) EXCEPT
                                 !.teacher_id = IF stored[a] \in {"mine", "mine evaluated"}
                                                THEN current_user ELSE current_user + 1,
                                 !.status = IF a \in evaluated THEN "completed" ELSE @]]
              /\ results = SelectSeq([a \in 1..MaxHttpSheets |->
                                         create_result(<<>>, a, 1, scores)[1]],
                                     LAMBDA doc : doc.answer_sheet_id \in evaluated)
    /\ \E sheet_ids \in HttpRequests, store \in {"up", "down"} :
          httpCall = [answer_sheet_ids |-> sheet_ids, store |-> store,
                      pc |-> "request", response |-> None]

(* The handler of POST /api/evaluate/bulk.  A call of the record store     *)
(* that raises is answered by 500.                                         *)
PostEvaluateBulk ==
    /\ httpCall # None
    /\ httpCall.pc = "request"
    /\ LET sheet_ids == httpCall.answer_sheet_ids
           respond(status, body) ==
               httpCall' = [httpCall EXCEPT !.pc = "responded",
                                            !.response = [status |-> status, body |-> body]]
       IN  IF sheet_ids = <<>>
           THEN /\ respond(400, [error |-> "answer_sheet_ids must be a non-empty array"])
                /\ UNCHANGED tasks
           ELSE IF httpCall.store = "down"
           THEN /\ respond(500, [error |-> "Server error"])
                /\ UNCHANGED tasks
           ELSE IF valid_ids(sheet_ids) = <<>>
           THEN /\ respond(400, [error |-> "No valid answer sheets to evaluate"])
                /\ UNCHANGED tasks
           ELSE /\ tasks' = Append(tasks, Message("process_bulk_evaluation", 0,
                                                  valid_ids(sheet_ids), 0))
                /\ respond(202, [message |-> "Bulk evaluation started",
                                 processing |-> Len(valid_ids(sheet_ids)),
                                 failed |-> Len(sheet_ids) - Len(valid_ids(sheet_ids))])
    /\ UNCHANGED <<schemes, sheets, results, files, nextScheme, nextSheet, faults,
                   ocrCall, evalCall, bulkLoop, worker, imageCall>>

NextHttp == PostEvaluateBulk

SpecHttp == InitHttp /\ [][NextHttp]_vars

-----------------------------------------------------------------------------
(* services/background_tasks.py, services/nlp_service.py: the module       *)
(* globals of one worker process and the jobs it takes, one after the      *)
(* other.  A global is FALSE while it is None.                             *)

(* The globals when the modules have been imported. *)
Unset ==
    [db |-> FALSE, fs |-> FALSE, models_db |-> FALSE,
     sentence_model |-> FALSE, nlp_model |-> FALSE, openai_client |-> FALSE]

(* init_celery_db returns, or one of its calls raises. *)
InitOutcomes == {"ok", "MongoClient", "SentenceTransformer", "spacy.load", "OpenAI"}

(* init_models: the three globals are assigned one after the other; the   *)
(* call that raises leaves the later ones as they were.                    *)
init_models(G, outcome) ==
    CASE outcome = "SentenceTransformer" -> G
      [] outcome = "spacy.load" -> [G EXCEPT !.sentence_model = TRUE]
      [] outcome = "OpenAI" -> [G EXCEPT !.sentence_model = TRUE, !.nlp_model = TRUE]
      [] OTHER -> [G EXCEPT !.sentence_model = TRUE, !.nlp_model = TRUE,
                            !.openai_client = TRUE]

(* init_celery_db: db, GridFS and the models' db references are assigned   *)
(* before init_models is called.                                           *)
init_celery_db(G, outcome) ==
    IF outcome = "MongoClient" THEN G
    ELSE init_models([G EXCEPT !.db = TRUE, !.fs = TRUE, !.models_db = TRUE], outcome)

WorkerTasks == {"process_model_answer", "process_evaluation", "process_bulk_evaluation"}

(* What the body of the task does with the globals it finds: the keyword   *)
(* extractor and the similarity need their models, the feedback falls back *)
(* without a client.                                                       *)
JobBody(task, G) ==
    CASE task = "process_bulk_evaluation" -> "ran"
      [] task = "process_model_answer" ->
           IF ~G.nlp_model THEN "NLP model not initialized" ELSE "ran"
      [] OTHER ->
           IF ~G.sentence_model THEN "Sentence transformer model not initialized"
           ELSE IF ~G.nlp_model THEN "NLP model not initialized"
           ELSE "ran"

InitWorker ==
    /\ schemes = <<>>
    /\ sheets = <<>>
    /\ results = <<>>
    /\ files = <<>>
    /\ tasks = <<>>
    /\ nextScheme = 0
    /\ nextSheet = 0
    /\ faults = 0
    /\ ocrCall = None
    /\ evalCall = None
    /\ bulkLoop = None
    /\ httpCall = None
    /\ worker = [globals |-> Unset, jobs |-> <<>>]
    /\ imageCall = None

(* The process takes a job: "if db is None: init_celery_db()", then the    *)
(* body of the task unless the initialisation raised.                      *)
WorkerJob(task, outcome) ==
    /\ worker # None
    /\ Len(worker.jobs) < MaxJobs
    /\ outcome \in (IF worker.globals.db THEN {"skipped"} ELSE InitOutcomes)
    /\ LET G == IF outcome = "skipped" THEN worker.globals
                ELSE init_celery_db(worker.globals, outcome)
           job == [task |-> task, init |-> outcome, found |-> G,
                   result |-> IF outcome \in {"skipped", "ok"} THEN JobBody(task, G)
                              ELSE IF outcome = "MongoClient" THEN "MongoClient raised"
                              ELSE InitError]
       IN  worker' = [globals |-> G, jobs |-> Append(worker.jobs, job)]
    /\ UNCHANGED <<schemes, sheets, results, files, tasks, nextScheme, nextSheet, faults,
                   ocrCall, evalCall, bulkLoop, httpCall, imageCall>>

NextWorker ==
    \E task \in WorkerTasks, outcome \in InitOutcomes \cup {"skipped"} :
        WorkerJob(task, outcome)

SpecWorker == InitWorker /\ [][NextWorker]_vars

-----------------------------------------------------------------------------
(* services/ocr_service.py: extract_text_from_image on its own, one        *)
(* iteration of its while loop at a time, for the values the environment   *)
(* can give OPENAI_MAX_RETRIES (config.py reads it with int(os.getenv)).   *)

(* max_retries = config.OPENAI_MAX_RETRIES *)
ConfiguredRetries == (-1)..MaxConfigured

(* A test that lets the last failed attempt sleep as well. *)
RetriesLeft_after_last(retries, configured) == retries <= configured

(* "if retries < max_retries" in the except block *)
RetriesLeft(retries, configured) == retries < configured

(* The OCRException raised below the while loop. *)
LoopExitError(configured) ==
    [message |-> "Failed to extract text from page {page_num} after {max_retries} retries",
     max_retries |-> configured]

(* The OCRException raised inside the loop, with the max_retries of the call. *)
AttemptsError(error_message, configured) ==
    LET e == TerminalError(error_message) IN
    IF "max_retries" \in DOMAIN e THEN [e EXCEPT !.max_retries = configured] ELSE e

(* retries = 0; max_retries = config.OPENAI_MAX_RETRIES *)
InitImage ==
    /\ schemes = <<>>
    /\ sheets = <<>>
    /\ results = <<>>
    /\ files = <<>>
    /\ tasks = <<>>
    /\ nextScheme = 0
    /\ nextSheet = 0
    /\ faults = 0
    /\ ocrCall = None
    /\ evalCall = None
    /\ bulkLoop = None
    /\ httpCall = None
    /\ worker = None
    /\ imageCall \in {[pc |-> "while", max_retries |-> m, retries |-> 0, calls |-> 0,
                       failures |-> <<>>, waits |-> <<>>, events |-> <<>>,
                       result |-> None] : m \in ConfiguredRetries}

(* An iteration whose Vision call returns: return extracted_text *)
ImageAttemptReturns ==
    /\ imageCall # None
    /\ imageCall.pc = "while"
    /\ imageCall.retries < imageCall.max_retries
    /\ imageCall' = [imageCall EXCEPT !.calls = @ + 1,
                                      !.events = Append(@, "call"),
                                      !.pc = "done",
                                      !.result = [ok |-> TRUE]]
    /\ UNCHANGED <<schemes, sheets, results, files, tasks, nextScheme, nextSheet, faults,
                   ocrCall, evalCall, bulkLoop, httpCall, worker>>

(* An iteration whose Vision call raises: retries += 1, then sleep and go  *)
(* round, or raise.                                                        *)
ImageAttemptRaises(error_message) ==
    /\ imageCall # None
    /\ imageCall.pc = "while"
    /\ imageCall.retries < imageCall.max_retries
    /\ LET retries == imageCall.retries + 1
           called == [imageCall EXCEPT !.retries = retries,
                                       !.calls = @ + 1,
                                       !.events = Append(@, "call"),
                                       !.failures = Append(@, error_message)]
       IN  imageCall' =
             IF RetriesLeft(retries, imageCall.max_retries)
             THEN [called EXCEPT !.waits = Append(@, wait_time(retries)),
                                 !.events = Append(@, "sleep")]
             ELSE [called EXCEPT !.pc = "done",
                                 !.result = [ok |-> FALSE,
                                             error |-> AttemptsError(error_message,
                                                                     imageCall.max_retries)]]
    /\ UNCHANGED <<schemes, sheets, results, files, tasks, nextScheme, nextSheet, faults,
                   ocrCall, evalCall, bulkLoop, httpCall, worker>>

(* The while test fails: the raise below the loop. *)
ImageLoopExit ==
    /\ imageCall # None
    /\ imageCall.pc = "while"
    /\ ~(imageCall.retries < imageCall.max_retries)
    /\ imageCall' = [imageCall EXCEPT !.pc = "done",
                                      !.result = [ok |-> FALSE,
                                                  error |-> LoopExitError(imageCall.max_retries)]]
    /\ UNCHANGED <<schemes, sheets, results, files, tasks, nextScheme, nextSheet, faults,
                   ocrCall, evalCall, bulkLoop, httpCall, worker>>

NextImage ==
    \/ ImageAttemptReturns
    \/ \E error_message \in ApiErrors : ImageAttemptRaises(error_message)
    \/ ImageLoopExit

SpecImage == InitImage /\ [][NextImage]_vars

-----------------------------------------------------------------------------
(* Properties.                                                             *)

(* C1.  Idempotency: a run of process_evaluation that starts for a sheet   *)
(* whose Result is already persisted is a no-op success: the step that     *)
(* starts it ends the task in SUCCESS and leaves sheets and results as     *)
(* they were (one Result, status and fields unchanged, nothing extracted   *)
(* or scored).                                                             *)
C1_RerunIsNoOpSuccess ==
    [][\A t \in DOMAIN tasks :
          ( /\ tasks[t].name = "process_evaluation"
            /\ tasks[t].pc = "queued"
            /\ tasks'[t] # tasks[t]
            /\ find_by_answer_sheet(results, tasks[t].arg) # {} )
          => ( /\ tasks'[t].state = "SUCCESS"
               /\ sheets' = sheets
               /\ results' = results )]_vars

(* C2.  When process_bulk_evaluation returns, every sheet id it was given  *)
(* has been submitted to process_evaluation: a member's failure keeps no   *)
(* later window from running.                                              *)
C2_EveryWindowSubmitted ==
    \A t \in DOMAIN tasks :
        (tasks[t].name = "process_bulk_evaluation" /\ tasks[t].pc = "done")
            => \A k \in DOMAIN tasks[t].ids :
                  \E c \in DOMAIN tasks :
                      /\ tasks[c].name = "process_evaluation"
                      /\ tasks[c].parent = t
                      /\ tasks[c].arg = tasks[t].ids[k]

C4_FailedHasErrorAndTime ==
    \A a \in DOMAIN sheets :
        sheets[a].status = "failed"
            => /\ sheets[a].error_message # None
               /\ sheets[a].processed_at # None

C4_SheetFailed ==
    \E a \in DOMAIN sheets :
        /\ sheets[a].status = "failed"
        /\ sheets[a].error_message # None

(* C5.  A scheme's status is ready if and only if its extracted text is    *)
(* non-null and its keywords are populated.                                *)
C5_ReadyIffTextAndKeywords ==
    \A m \in DOMAIN schemes :
        schemes[m].status = "ready"
            <=> /\ schemes[m].extracted_text # None
                /\ schemes[m].keywords # <<>>

(* C6.  Once a scheme's status is ready or failed no step changes it: the  *)
(* only transitions are processing -> ready and processing -> failed.      *)
C6_SchemeTerminal ==
    [][\A m \in (DOMAIN schemes \cap DOMAIN schemes') :
          schemes[m].status \in {"ready", "failed"}
              => schemes'[m].status = schemes[m].status]_vars

(* C7.  The only status transitions of a sheet are pending -> processing,  *)
(* processing -> completed, pending -> failed and processing -> failed.    *)
C7_SheetTransitions ==
    [][\A a \in (DOMAIN sheets \cap DOMAIN sheets') :
          \/ sheets'[a].status = sheets[a].status
          \/ <<sheets[a].status, sheets'[a].status>>
                \in {<<"pending", "processing">>, <<"processing", "completed">>,
                     <<"pending", "failed">>, <<"processing", "failed">>}]_vars

(* C8.  A step of process_evaluation that moves a sheet to processing, or  *)
(* that runs the extraction or the scoring, is a step of a run that read   *)
(* the scheme's status as ready.                                           *)
C8_ReadinessGuard ==
    [][\A t \in DOMAIN tasks :
          ( /\ tasks[t].name = "process_evaluation"
            /\ tasks'[t] # tasks[t]
            /\ \/ tasks[t].pc \in {"extract", "evaluate"}
               \/ \E a \in (DOMAIN sheets \cap DOMAIN sheets') :
                     /\ sheets'[a].status = "processing"
                     /\ sheets[a].status # "processing" )
          => ( /\ tasks'[t].scheme # None
               /\ tasks'[t].scheme.doc.status = "ready" )]_vars

C8_GuardPassed ==
    \E t \in DOMAIN tasks :
        /\ tasks[t].name = "process_evaluation"
        /\ tasks[t].pc = "extract"
        /\ tasks[t].arg \in DOMAIN sheets
        /\ sheets[tasks[t].arg].status = "processing"

(* C9.  A run of process_evaluation that finds the scheme not ready leaves *)
(* the sheets as they were: status, error_message and processed_at are     *)
(* unchanged by the step that handles the error.                           *)
C9_NotReadyLeavesSheet ==
    [][\A t \in DOMAIN tasks :
          ( /\ tasks[t].name = "process_evaluation"
            /\ tasks[t].pc = "except"
            /\ tasks[t].exc = <<NotReadyError>>
            /\ tasks'[t] # tasks[t] )
          => sheets' = sheets]_vars

(* C10.  A run of process_evaluation that hits a precondition error (the   *)
(* scheme is not ready, or the sheet already has its Result) is not        *)
(* scheduled again by the task's retry.                                    *)
C10_PreconditionNotRetried ==
    [][\A t \in DOMAIN tasks :
          ( /\ tasks[t].name = "process_evaluation"
            /\ tasks[t].pc = "except"
            /\ tasks[t].exc \in {<<NotReadyError>>, <<DuplicateKeyError>>}
            /\ tasks'[t] # tasks[t] )
          => tasks'[t].state # "RETRY"]_vars

(* C11.  A task that hit a permanent extraction error (the document cannot *)
(* be rasterized, or has zero pages) is not scheduled again: the step that *)
(* handles the error never puts the task in RETRY.                         *)
C11_PermanentErrorNotRetried ==
    [][\A t \in DOMAIN tasks :
          ( /\ tasks[t].name \in {"process_evaluation", "process_model_answer"}
            /\ tasks[t].pc = "except"
            /\ tasks[t].exc \in {<<"Failed to convert PDF to images">>,
                                 <<"PDF contains no pages">>}
            /\ tasks'[t] # tasks[t] )
          => tasks'[t].state # "RETRY"]_vars

(* C12.  No record stays in processing for ever: a sheet in processing     *)
(* eventually leaves it (or is deleted), and so does a scheme, whatever    *)
(* step of the task failed.                                                *)
C12_NoRecordStuckInProcessing ==
    /\ \A a \in 1..MaxSheets :
          (a \in DOMAIN sheets /\ sheets[a].status = "processing")
             ~> (a \notin DOMAIN sheets \/ sheets[a].status # "processing")
    /\ \A m \in 1..MaxSchemes :
          (m \in DOMAIN schemes /\ schemes[m].status = "processing")
             ~> (m \notin DOMAIN schemes \/ schemes[m].status # "processing")

(* C13.  Every execution of process_evaluation or process_model_answer     *)
(* that ends with an exception leaves its record (when it exists) in       *)
(* failed with an error_message by the step that raises or schedules the   *)
(* retry, and an exception handled by the except block always reaches the  *)
(* job runner: the task goes to RETRY or FAILURE.                          *)
C13_FailedWrittenBeforeRaise ==
    [][\A t \in DOMAIN tasks :
          ( /\ tasks[t].name \in {"process_evaluation", "process_model_answer"}
            /\ tasks'[t] # tasks[t] )
          => /\ tasks[t].pc = "except" => tasks'[t].state \in {"RETRY", "FAILURE"}
             /\ ( /\ tasks'[t].state \in {"RETRY", "FAILURE"}
                  /\ tasks[t].name = "process_evaluation"
                  /\ tasks[t].arg \in DOMAIN sheets' )
                => /\ sheets'[tasks[t].arg].status = "failed"
                   /\ sheets'[tasks[t].arg].error_message # None
             /\ ( /\ tasks'[t].state \in {"RETRY", "FAILURE"}
                  /\ tasks[t].name = "process_model_answer"
                  /\ tasks[t].arg \in DOMAIN schemes' )
                => /\ schemes'[tasks[t].arg].status = "failed"
                   /\ "error_message" \in DOMAIN schemes'[tasks[t].arg]]_vars

(* C14.  Bounded retry: a task is re-queued at most max_retries times (so  *)
(* it is executed at most max_retries + 1 times), every re-queue is        *)
(* counted, a task that has failed is never re-queued, and once every task *)
(* for a failed sheet has ended the sheet stays as it is until a request   *)
(* deletes it or triggers a new task.                                      *)
C14_BoundedRetry ==
    [][/\ \A t \in DOMAIN tasks :
             /\ tasks'[t].retries <= max_retries
             /\ tasks[t].state = "FAILURE" => tasks'[t] = tasks[t]
             /\ (tasks'[t].state = "RETRY" /\ tasks[t].state # "RETRY")
                   => tasks'[t].retries = tasks[t].retries + 1
       /\ \A a \in DOMAIN sheets :
             ( /\ sheets[a].status = "failed"
               /\ \A t \in DOMAIN tasks :
                     (tasks[t].name = "process_evaluation" /\ tasks[t].arg = a)
                        => tasks[t].state \in {"SUCCESS", "FAILURE"} )
             => (a \notin DOMAIN sheets' \/ sheets'[a] = sheets[a])]_vars

C14_RetriesExhausted ==
    \E t \in DOMAIN tasks :
        /\ tasks[t].state = "FAILURE"
        /\ tasks[t].retries = max_retries
        /\ tasks[t].name = "process_evaluation"
        /\ tasks[t].arg \in DOMAIN sheets
        /\ sheets[tasks[t].arg].status = "failed"

(* C15 as stated.  Exponential backoff of the task retries: the delay     *)
(* scheduled for each retry of a task is strictly larger than the delay of *)
(* its previous retry.                                                     *)
C15_RetryDelaysIncrease ==
    \A t \in DOMAIN tasks :
        \A k \in 1..(Len(tasks[t].countdowns) - 1) :
            tasks[t].countdowns[k + 1] > tasks[t].countdowns[k]

(* C16.  extract_text_from_image makes at most OPENAI_MAX_RETRIES Vision   *)
(* calls for a page and none after the first success; after its k-th       *)
(* failed call, k below the maximum, it sleeps                             *)
(* OPENAI_RETRY_DELAY_SECONDS * 2^(k-1) seconds, whatever the kind of the  *)
(* failure, so that the sleeps strictly increase.                          *)
C16_AttemptsAndBackoff ==
    \A p \in DOMAIN ocrCall.log :
        LET page == ocrCall.log[p]
            failed == Len(page.failures)
        IN  /\ page.calls <= OPENAI_MAX_RETRIES
            /\ page.calls \in {failed, failed + 1}
            /\ (ocrCall.pc = "page" /\ p = ocrCall.page_num) => page.calls = failed
            /\ Len(page.waits) = Min(failed, OPENAI_MAX_RETRIES - 1)
            /\ \A k \in DOMAIN page.waits :
                  /\ page.waits[k] = OPENAI_RETRY_DELAY_SECONDS * 2 ^ (k - 1)
                  /\ k > 1 => page.waits[k] > page.waits[k - 1]

C16_TwoSleepsOfBothKinds ==
    \E p \in DOMAIN ocrCall.log :
        /\ Len(ocrCall.log[p].waits) = 2
        /\ IsRateLimit(ocrCall.log[p].failures[1])
        /\ ~IsRateLimit(ocrCall.log[p].failures[2])
        /\ ocrCall.log[p].calls = 3

(* C17 as stated.  Whenever the last call allowed for a page fails, for    *)
(* any kind of failure, the error raised carries the message of that last  *)
(* failure and the number of attempts.                                     *)
C17_ErrorCarriesMessageAndCount ==
    \A p \in DOMAIN ocrCall.log :
        LET page == ocrCall.log[p] IN
        Len(page.failures) = OPENAI_MAX_RETRIES
            => /\ page.raised # None
               /\ {"error_message", "max_retries"} \subseteq DOMAIN page.raised
               /\ page.raised.error_message = page.failures[Len(page.failures)]
               /\ page.raised.max_retries = page.calls

(* C17 as the code has it.  An error is raised exactly when the last call  *)
(* allowed for a page fails.  When that failure is not a rate-limit or     *)
(* quota failure, the error carries its message and the number of          *)
(* attempts; when it is one, the error is the fixed "OpenAI API rate limit *)
(* exceeded" and carries neither.                                          *)
C17_GenericErrorCarriesMessageAndCount ==
    \A p \in DOMAIN ocrCall.log :
        LET page == ocrCall.log[p]
            failed == Len(page.failures)
        IN  /\ page.raised # None <=> failed = OPENAI_MAX_RETRIES
            /\ failed = OPENAI_MAX_RETRIES =>
                  IF IsRateLimit(page.failures[failed])
                  THEN page.raised = [message |-> "OpenAI API rate limit exceeded"]
                  ELSE /\ {"error_message", "max_retries"} \subseteq DOMAIN page.raised
                       /\ page.raised.error_message = page.failures[failed]
                       /\ page.raised.max_retries = page.calls

C17_GenericAfterRateLimit ==
    \E p \in DOMAIN ocrCall.log :
        /\ ocrCall.log[p].raised # None
        /\ IsRateLimit(ocrCall.log[p].failures[1])
        /\ ~IsRateLimit(ocrCall.log[p].failures[OPENAI_MAX_RETRIES])

(* C15 as the code has it.  Every retry of a task is scheduled with the    *)
(* same delay of 60 seconds, one delay for each retry counted.             *)
C15_RetryDelayConstant ==
    \A t \in DOMAIN tasks :
        /\ Len(tasks[t].countdowns) = tasks[t].retries
        /\ \A k \in DOMAIN tasks[t].countdowns : tasks[t].countdowns[k] = 60

C15_RetriedTwice ==
    \E t \in DOMAIN tasks : Len(tasks[t].countdowns) >= 2

(* C18.  The caller gets the rate-limit error exactly when the last call   *)
(* allowed for a page fails with a rate-limit or quota message; that error *)
(* differs from the one raised for any other failure, and no error is      *)
(* raised before OPENAI_MAX_RETRIES calls were made.                       *)
C18_RateLimitSignalled ==
    \A p \in DOMAIN ocrCall.log :
        LET page == ocrCall.log[p]
            failed == Len(page.failures)
            rate_limited ==
                /\ failed = OPENAI_MAX_RETRIES
                /\ \E k \in DOMAIN page.failures[failed] :
                      page.failures[failed][k] \in {"Rate_Limit", "quota"}
        IN  /\ page.raised # None => page.calls = OPENAI_MAX_RETRIES
            /\ rate_limited <=>
                  page.raised = [message |-> "OpenAI API rate limit exceeded"]
            /\ (failed = OPENAI_MAX_RETRIES /\ ~rate_limited)
                  => /\ page.raised # None
                     /\ page.raised.message # "OpenAI API rate limit exceeded"

C18_RateLimitAfterGeneric ==
    \E p \in DOMAIN ocrCall.log :
        /\ ocrCall.log[p].raised = [message |-> "OpenAI API rate limit exceeded"]
        /\ ocrCall.log[p].failures[1] = <<"Connection", "error.">>
        /\ ocrCall.log[p].failures[3] = <<"Error", "code:", "429", "Rate_Limit", "reached">>

(* C19.  When extract_text_from_pdf has gone through a document of N       *)
(* pages it returns, without raising, N segments in page order: the        *)
(* placeholder naming page k for each page k whose calls were exhausted,   *)
(* the text read on the page for every other page.  This is the text the   *)
(* operator extract_text_from_pdf gives for that set of failing pages.     *)
C19_PartialPageFailure ==
    LET sentinel == <<"[Error extracting text from page 1]",
                      "[Error extracting text from page 2]",
                      "[Error extracting text from page 3]">>
        N == Len(ocrCall.images)
        failing == {k \in DOMAIN ocrCall.log : ocrCall.log[k].raised # None}
    IN  (ocrCall.pc = "done" /\ N > 0)
           => /\ ocrCall.result.ok
              /\ Len(ocrCall.result.text) = N
              /\ \A k \in 1..N :
                    ocrCall.result.text[k] =
                       IF k \in failing THEN sentinel[k] ELSE ocrCall.images[k]
              /\ ocrCall.result = extract_text_from_pdf(files, ocrCall.pdf_file_id, failing)

C19_OnePageOfTwoFailed ==
    /\ ocrCall.pc = "done"
    /\ Len(ocrCall.images) = 2
    /\ ocrCall.log[1].raised # None
    /\ ocrCall.log[2].raised = None
    /\ ocrCall.result.text = <<"[Error extracting text from page 1]", "alpha beta">>

(* C20 as stated.  extract_text_from_pdf raises only when the document     *)
(* cannot be rasterized or has zero pages.                                 *)
C20_RaisesOnlyInTwoCases ==
    (ocrCall.pc = "done" /\ ~ocrCall.result.ok)
        => /\ ocrCall.pdf_file_id \in DOMAIN files
           /\ \/ ~files[ocrCall.pdf_file_id].rasterizable
              \/ files[ocrCall.pdf_file_id].pages = <<>>

(* C20 as the code has it.  extract_text_from_pdf raises in three cases:   *)
(* the stored file cannot be downloaded, the document cannot be            *)
(* rasterized, or it has zero pages; in every other situation, whatever    *)
(* the Vision calls do, it returns a text.                                 *)
C20_RaisesInThreeCases ==
    ocrCall.pc = "done"
        => LET missing == ocrCall.pdf_file_id \notin DOMAIN files IN
           /\ ~ocrCall.result.ok
                 <=> \/ missing
                     \/ ~files[ocrCall.pdf_file_id].rasterizable
                     \/ files[ocrCall.pdf_file_id].pages = <<>>
           /\ missing => ocrCall.result.error = "OCR process failed: File not found"
           /\ ocrCall.result.ok => Len(ocrCall.result.text) > 0

C20_DownloadFailed ==
    /\ ocrCall.pc = "done"
    /\ ocrCall.pdf_file_id \notin DOMAIN files
    /\ ~ocrCall.result.ok

(* C21.  For every similarity in [-1, 1], keyword score in [0, 1] and      *)
(* total_marks > 0, the raw score evaluate_answer returns lies between 0   *)
(* and total_marks.                                                        *)
C21_RawScoreWithinMarks ==
    (evalCall.pc = "done" /\ evalCall.total_marks > 0)
        => /\ 0 <= evalCall.result.total_score
           /\ evalCall.result.total_score <= evalCall.total_marks

(* C22.  When total_marks > 0 and the hybrid score lies in [0, 1], the raw *)
(* score lies in 0..total_marks and the percentage is raw_score /          *)
(* total_marks * 100 rounded to two decimals; when total_marks <= 0 the    *)
(* percentage is 0.                                                        *)
C22_PercentageOfRawScore ==
    evalCall.pc = "done"
        => LET kw == evalCall.keyword_match
               total_marks == evalCall.total_marks
               raw_score == evalCall.result.total_score
               percentage == evalCall.result.percentage     \* in hundredths
               \* hybrid = hybrid_num / hybrid_den
               hybrid_num == evalCall.similarity * 6 * kw.den + kw.num * 40000
               hybrid_den == 100000 * kw.den
               off == percentage * total_marks - raw_score * 10000
           IN  /\ (total_marks > 0 /\ 0 <= hybrid_num /\ hybrid_num <= hybrid_den)
                     => /\ 0 <= raw_score /\ raw_score <= total_marks
                        /\ 0 <= percentage /\ percentage <= 10000
                        /\ 2 * off <= total_marks /\ -2 * off <= total_marks
               /\ total_marks <= 0 => percentage = 0

C22_ThirdsRounded ==
    /\ evalCall.pc = "done"
    /\ evalCall.total_marks = 3
    /\ evalCall.result.total_score = 2
    /\ evalCall.result.percentage = 6667

(* C23.  The raw score is (similarity * 0.6 + keyword score * 0.4) *       *)
(* total_marks, rounded: total_marks 100, similarity 0.8 and keyword score *)
(* 0.5 give the raw score 68 and the percentage 68.0.                      *)
C23_WorkedExample ==
    evalCall.pc = "done"
        => LET kw == evalCall.keyword_match
               raw_score == evalCall.result.total_score
               off == raw_score * 100000 * kw.den
                      - evalCall.total_marks
                        * (evalCall.similarity * 6 * kw.den + kw.num * 40000)
           IN  /\ 2 * off <= 100000 * kw.den /\ -2 * off <= 100000 * kw.den
               /\ (/\ evalCall.total_marks = 100
                   /\ evalCall.similarity = 8000
                   /\ 2 * kw.num = kw.den)
                     => /\ raw_score = 68
                        /\ evalCall.result.percentage = 6800
                        /\ evalCall.result.max_score = 100

C23_ExampleScored ==
    /\ evalCall.pc = "done"
    /\ evalCall.total_marks = 100
    /\ evalCall.similarity = 8000
    /\ evalCall.keyword_match = [num |-> 1, den |-> 2]
    /\ evalCall.result.total_score = 68

(* C24.  The keyword score is the number of model keywords that occur      *)
(* among the student's keywords divided by the number of model keywords;   *)
(* it lies in [0, 1] and is 0 when there is no model keyword, whatever the *)
(* student's text.                                                         *)
C24_KeywordScore ==
    (evalCall # None /\ evalCall.pc \in {"keyword", "done"})
        => LET model_keywords == evalCall.model_keywords
               student_keywords == Range(extract_keywords(evalCall.student_text))
               matching == {k \in DOMAIN model_keywords :
                               model_keywords[k] \in student_keywords}
               kw == evalCall.keyword_match
           IN  /\ kw.den > 0
               /\ 0 <= kw.num /\ kw.num <= kw.den
               /\ model_keywords = <<>> => kw.num = 0
               /\ model_keywords # <<>>
                     => kw.num * Len(model_keywords) = Cardinality(matching) * kw.den
               /\ evalCall.pc = "done"
                     => /\ 0 <= evalCall.result.keyword_match_score
                        /\ evalCall.result.keyword_match_score <= 10000
                        /\ model_keywords = <<>>
                              => evalCall.result.keyword_match_score = 0

C24_TwoOfThreeMatched ==
    /\ evalCall.pc = "done"
    /\ Len(evalCall.model_keywords) = 3
    /\ evalCall.keyword_match = [num |-> 2, den |-> 3]
    /\ evalCall.result.keyword_match_score = 6667

(* C25.  Whatever the narrative call does (it answers, it raises, the      *)
(* client was never initialised), evaluate_answer returns the scores, and  *)
(* when the call failed the feedback is the templated sentence with both   *)
(* sub-scores as percentages.                                              *)
C25_FeedbackFallback ==
    evalCall.pc = "done"
        => LET result == evalCall.result
               kw == evalCall.keyword_match
           IN  /\ {"total_score", "percentage", "detailed_feedback"} \subseteq DOMAIN result
               /\ evalCall.narrative # "content"
                     => LET feedback == result.detailed_feedback
                            sim_off == feedback[2] * 10 - evalCall.similarity
                            kw_off == feedback[4] * kw.den - kw.num * 1000
                        IN  /\ Len(feedback) >= 5
                            /\ feedback[1] = "Answer evaluated with "
                            /\ feedback[3] = "% semantic similarity and "
                            /\ feedback[5] = "% keyword coverage."
                            /\ 2 * sim_off <= 10 /\ -2 * sim_off <= 10
                            /\ 2 * kw_off <= kw.den /\ -2 * kw_off <= kw.den

C25_NoClientStillScored ==
    /\ evalCall.pc = "done"
    /\ evalCall.narrative = "no client"
    /\ evalCall.result.total_score = 7
    /\ evalCall.result.detailed_feedback
          = <<"Answer evaluated with ", 800, "% semantic similarity and ", 500,
              "% keyword coverage.">>

(* C26.  Whatever the interleaving of the evaluation jobs of one sheet,    *)
(* retries included, there is never more than one Result for the sheet,   *)
(* and while a Result for the sheet exists no step stores another one in   *)
(* its place.                                                              *)
C26_AtMostOneResult ==
    [][\A a \in 1..MaxSheets :
          LET before == {results[i] : i \in find_by_answer_sheet(results, a)}
              after == {results'[i] : i \in find_by_answer_sheet(results', a)}
          IN  /\ Cardinality(find_by_answer_sheet(results', a)) <= 1
              /\ before # {} => after \subseteq before]_vars

C26_SecondInsertRefused ==
    \E t, u \in DOMAIN tasks :
        /\ t # u
        /\ tasks[t].name = "process_evaluation"
        /\ tasks[u].name = "process_evaluation"
        /\ tasks[t].arg = tasks[u].arg
        /\ tasks[u].exc = <<DuplicateKeyError>>
        /\ Cardinality(find_by_answer_sheet(results, tasks[t].arg)) = 1

(* C27.  Windows run one after the other: every job a batch has dispatched *)
(* that has not reached its final outcome (success, or failure after its   *)
(* retries) belongs to the window the batch is waiting for, so the jobs of *)
(* all earlier windows have ended before a later one is started, and at    *)
(* most 5 jobs of a batch are in flight.                                   *)
C27_WindowsInSequence ==
    \A t \in DOMAIN tasks :
        tasks[t].name = "process_bulk_evaluation"
            => LET members == {c \in DOMAIN tasks : tasks[c].parent = t}
                   in_flight == {c \in members : tasks[c].state \notin {"SUCCESS", "FAILURE"}}
                   window == {tasks[t].children[k] : k \in DOMAIN tasks[t].children}
               IN  /\ in_flight \subseteq window
                   /\ Cardinality(in_flight) <= 5
                   /\ Cardinality(window) <= 5

C27_SecondWindowRunning ==
    \E t \in DOMAIN tasks :
        /\ tasks[t].name = "process_bulk_evaluation"
        /\ tasks[t].i = 5
        /\ Cardinality({c \in DOMAIN tasks : tasks[c].parent = t /\ tasks[c].state = "SUCCESS"}) = 5
        /\ \E k \in DOMAIN tasks[t].children : tasks[tasks[t].children[k]].state = "STARTED"

(* C28.  The windows process_bulk_evaluation forms are the consecutive     *)
(* slices of 5 of the id list, in order: window k holds the ids            *)
(* 5(k-1)+1 .. min(5k, n).  When the loop runs to its end there are        *)
(* ceil(n/5) of them, all of size 5 except possibly the last, and every id *)
(* of the list is in its window at its place (12 ids: 5, 5 and 2).         *)
C28_WindowPartition ==
    LET ids == bulkLoop.answer_sheet_ids
        n == Len(ids)
        windows == bulkLoop.windows
        completed == bulkLoop.pc = "done" /\ "message" \in DOMAIN bulkLoop.summary
    IN  /\ \A k \in DOMAIN windows :
              /\ Len(windows[k]) = (IF 5 * k <= n THEN 5 ELSE n - 5 * (k - 1))
              /\ Len(windows[k]) >= 1
              /\ \A j \in DOMAIN windows[k] : windows[k][j] = ids[5 * (k - 1) + j]
        /\ Len(windows) <= (n + 4) \div 5
        /\ completed
              => /\ Len(windows) = (n + 4) \div 5
                 /\ \A j \in 1..n : ids[j] = windows[((j - 1) \div 5) + 1][((j - 1) % 5) + 1]
                 /\ n = 12 => /\ Len(windows) = 3
                              /\ Len(windows[1]) = 5
                              /\ Len(windows[2]) = 5
                              /\ Len(windows[3]) = 2

C28_TwelveIdsThreeWindows ==
    /\ bulkLoop.pc = "done"
    /\ "message" \in DOMAIN bulkLoop.summary
    /\ Len(bulkLoop.answer_sheet_ids) = 12
    /\ Len(bulkLoop.windows) = 3
    /\ Len(bulkLoop.windows[3]) = 2

(* C29 as stated.  The bulk entry point answers a request for a non-empty  *)
(* list of ids with the number of ids submitted and the number of ids that *)
(* failed to queue, the two summing to the number of ids requested.        *)
C29_CountsReturned ==
    (/\ httpCall.pc = "responded"
     /\ httpCall.answer_sheet_ids # <<>>
     /\ httpCall.store = "up")
        => /\ {"processing", "failed"} \subseteq DOMAIN httpCall.response.body
           /\ httpCall.response.body.processing + httpCall.response.body.failed
                 = Len(httpCall.answer_sheet_ids)

(* C29 as the code has it.  An id is valid when its sheet exists, belongs  *)
(* to the caller and has no Result.  When some requested id is valid the   *)
(* entry point submits one batch with the valid ids, in order, and answers *)
(* 202 with their number and the number of the others, the two summing to  *)
(* the number requested, and with nothing per item; when none is valid (or *)
(* the record store fails) it answers with an error, without counts, and   *)
(* submits nothing.                                                        *)
C29_CountsReturnedWhenSubmitted ==
    httpCall.pc = "responded"
        => LET sheet_ids == httpCall.answer_sheet_ids
               response == httpCall.response
               valid(id) == /\ id \in DOMAIN sheets
                            /\ sheets[id].teacher_id = 1
                            /\ \A i \in DOMAIN results : results[i].answer_sheet_id # id
               submitted == {k \in DOMAIN sheet_ids : valid(sheet_ids[k])}
           IN  /\ response.status = 202
                     <=> (submitted # {} /\ httpCall.store = "up")
               /\ response.status = 202
                     => /\ DOMAIN response.body = {"message", "processing", "failed"}
                        /\ response.body.processing = Cardinality(submitted)
                        /\ response.body.failed = Len(sheet_ids) - Cardinality(submitted)
                        /\ Len(tasks) = 1
                        /\ tasks[1].name = "process_bulk_evaluation"
                        /\ Len(tasks[1].ids) = Cardinality(submitted)
                        /\ \A id \in 1..MaxHttpSheets :
                              (\E k \in DOMAIN tasks[1].ids : tasks[1].ids[k] = id)
                                 <=> (\E k \in submitted : sheet_ids[k] = id)
               /\ response.status # 202
                     => /\ DOMAIN response.body = {"error"}
                        /\ tasks = <<>>

C29_SomeSubmittedSomeNot ==
    /\ httpCall.pc = "responded"
    /\ httpCall.response.status = 202
    /\ httpCall.response.body.processing = 1
    /\ httpCall.response.body.failed = 2
    /\ \E k \in DOMAIN httpCall.answer_sheet_ids :
          LET id == httpCall.answer_sheet_ids[k] IN
          /\ id \in DOMAIN sheets
          /\ sheets[id].teacher_id # 1
          /\ \A i \in DOMAIN results : results[i].answer_sheet_id # id

(* C30.  The evaluation path only reads schemes: a step of a               *)
(* process_evaluation or process_bulk_evaluation task, whether the run     *)
(* succeeds or fails, leaves every scheme as it was, and a step of a task  *)
(* that changes a field of a scheme is a step of the process_model_answer  *)
(* task of that scheme.                                                    *)
C30_SchemeReadOnlyToEvaluation ==
    [][/\ (\E t \in DOMAIN tasks :
              /\ tasks[t].name \in {"process_evaluation", "process_bulk_evaluation"}
              /\ tasks'[t] # tasks[t])
          => schemes' = schemes
       /\ \A id \in DOMAIN schemes \cap DOMAIN schemes' :
             schemes'[id] # schemes[id]
                => \E t \in DOMAIN tasks :
                      /\ tasks[t].name = "process_model_answer"
                      /\ tasks[t].arg = id
                      /\ tasks'[t] # tasks[t]]_vars

C30_EvaluationFailedSchemeReady ==
    \E t \in DOMAIN tasks :
        /\ tasks[t].name = "process_evaluation"
        /\ tasks[t].state = "FAILURE"
        /\ tasks[t].scheme # None
        /\ tasks[t].scheme.id \in DOMAIN schemes
        /\ schemes[tasks[t].scheme.id].status = "ready"

(* C31.  The steps of one sheet's job follow one another: extraction       *)
(* starts in the step that has set the status to processing; scoring       *)
(* starts in the step that has stored the extracted text; a Result is      *)
(* stored only by the step that scored, after the extraction; the status   *)
(* becomes completed only in the step that follows the one that stored the *)
(* Result.                                                                 *)
C31_StepsInSequence ==
    [][\A t \in DOMAIN tasks :
          (tasks[t].name = "process_evaluation" /\ tasks'[t] # tasks[t])
          => LET a == tasks[t].arg
                 p == tasks[t].pc
                 q == tasks'[t].pc
             IN  /\ q = "extract"
                       => /\ p = "queued"
                          /\ a \in DOMAIN sheets'
                          /\ sheets'[a].status = "processing"
                 /\ q = "evaluate"
                       => /\ p = "extract"
                          /\ tasks'[t].text # None
                          /\ a \in DOMAIN sheets' => sheets'[a].extracted_text = tasks'[t].text
                 /\ results' # results
                       => /\ p = "evaluate"
                          /\ q = "update_completed"
                          /\ tasks[t].text # None
                          /\ Len(results') = Len(results) + 1
                          /\ results'[Len(results')].answer_sheet_id = a
                 /\ q = "update_completed" => results' # results
                 /\ (/\ a \in DOMAIN sheets'
                     /\ sheets'[a].status = "completed"
                     /\ sheets[a].status # "completed")
                       => /\ p = "update_completed"
                          /\ \E i \in DOMAIN results : results[i].answer_sheet_id = a
                 /\ (q = "done" /\ tasks'[t].state = "SUCCESS")
                       => /\ p = "update_completed"
                          /\ a \in DOMAIN sheets' => sheets'[a].status = "completed"]_vars

C31_JobRanToCompletion ==
    \E t \in DOMAIN tasks :
        /\ tasks[t].name = "process_evaluation"
        /\ tasks[t].state = "SUCCESS"
        /\ tasks[t].arg \in DOMAIN sheets
        /\ sheets[tasks[t].arg].status = "completed"
        /\ sheets[tasks[t].arg].extracted_text = tasks[t].text
        /\ \E i \in DOMAIN results : results[i].answer_sheet_id = tasks[t].arg

(* C32.  The handles of a worker process are initialised once: once an    *)
(* initialisation has been under way in the process, even one that failed  *)
(* part-way, every later job skips the initialisation and finds all        *)
(* handles initialised.                                                    *)
C32_InitialisedOnce ==
    \A k \in 2..Len(worker.jobs) :
        (\E j \in 1..(k - 1) : worker.jobs[j].found.db)
            => /\ worker.jobs[k].init = "skipped"
               /\ \A h \in DOMAIN worker.jobs[k].found : worker.jobs[k].found[h]

(* C33.  Whenever a Result exists for a sheet and no evaluation job of the *)
(* sheet is queued, running or waiting for a retry, the status of the      *)
(* sheet is completed.                                                     *)
C33_ResultMeansCompleted ==
    \A a \in DOMAIN sheets :
        (/\ \E i \in DOMAIN results : results[i].answer_sheet_id = a
         /\ \A t \in DOMAIN tasks :
               (tasks[t].name = "process_evaluation" /\ tasks[t].arg = a)
                  => tasks[t].state \in {"SUCCESS", "FAILURE"})
            => sheets[a].status = "completed"

(* C34.  The list the bulk entry point hands to process_bulk_evaluation    *)
(* holds each sheet id at most once, also when the request lists an id     *)
(* more than once.                                                         *)
C34_BatchIdsDistinct ==
    (httpCall.pc = "responded" /\ httpCall.response.status = 202)
        => \A j, k \in DOMAIN tasks[1].ids :
              tasks[1].ids[j] = tasks[1].ids[k] => j = k

(* C35.  A sheet whose status is completed has a null error_message, also  *)
(* when it completed on a retry after a failed attempt.                    *)
C35_CompletedHasNoError ==
    \A a \in DOMAIN sheets :
        sheets[a].status = "completed" => sheets[a].error_message = None

(* C36.  A sheet whose status is completed has an extracted_text and a     *)
(* processed_at; a sheet whose status is pending has neither.              *)
C36_FieldsFollowStatus ==
    \A a \in DOMAIN sheets :
        /\ sheets[a].status = "completed"
              => /\ sheets[a].extracted_text # None
                 /\ sheets[a].processed_at # None
        /\ sheets[a].status = "pending"
              => /\ sheets[a].extracted_text = None
                 /\ sheets[a].processed_at = None

C36_CompletedSheet ==
    \E a \in DOMAIN sheets :
        /\ sheets[a].status = "completed"
        /\ sheets[a].extracted_text # None
        /\ sheets[a].processed_at # None

(* C37.  A stored document with at least one page never fails extraction   *)
(* because its pages failed: the extraction step of the evaluation job     *)
(* ends with one segment per page, a placeholder for each failed page, or  *)
(* with a record store error; and a job whose text is all placeholders     *)
(* goes on to persist a Result, failing only on the record store.          *)
C37_PageFailuresNeverFailExtraction ==
    [][\A t \in DOMAIN tasks :
          (tasks[t].name = "process_evaluation" /\ tasks'[t] # tasks[t])
          => LET id == AnswerFile(tasks[t].arg)
                 p == tasks[t].pc
                 q == tasks'[t].pc
             IN  /\ (/\ p = "extract"
                     /\ id \in DOMAIN files
                     /\ files[id].rasterizable
                     /\ Len(files[id].pages) >= 1)
                       => /\ q \in {"evaluate", "except"}
                          /\ q = "except" => tasks'[t].exc = <<StoreError>>
                          /\ q = "evaluate"
                                => /\ Len(tasks'[t].text) = Len(files[id].pages)
                                   /\ \A k \in DOMAIN tasks'[t].text :
                                         tasks'[t].text[k] \in
                                            {files[id].pages[k], PagePlaceholder(k)}
                 /\ (/\ p = "evaluate"
                     /\ \A k \in DOMAIN tasks[t].text :
                           tasks[t].text[k] = PagePlaceholder(k))
                       => /\ q \in {"update_completed", "except"}
                          /\ q = "except"
                                => tasks'[t].exc \in {<<StoreError>>, <<DuplicateKeyError>>}
                          /\ q = "update_completed"
                                => /\ Len(results') = Len(results) + 1
                                   /\ results'[Len(results')].answer_sheet_id = tasks[t].arg]_vars

C37_CompletedOnPlaceholders ==
    \E a \in DOMAIN sheets :
        /\ sheets[a].status = "completed"
        /\ sheets[a].extracted_text # None
        /\ Len(sheets[a].extracted_text) >= 1
        /\ \A k \in DOMAIN sheets[a].extracted_text :
              sheets[a].extracted_text[k] = PagePlaceholder(k)
        /\ \E i \in DOMAIN results : results[i].answer_sheet_id = a

(* C38.  When every attempt of extract_text_from_image fails: with         *)
(* max_retries >= 1 the Vision call is made exactly max_retries times and  *)
(* exactly max_retries - 1 sleeps occur, none after the final attempt;     *)
(* with max_retries <= 0 the call is never made and an error is raised.    *)
C38_RetryLoopAccounting ==
    (/\ imageCall.pc = "done"
     /\ Len(imageCall.failures) = imageCall.calls)
        => /\ ~imageCall.result.ok
           /\ imageCall.max_retries >= 1
                 => /\ imageCall.calls = imageCall.max_retries
                    /\ Len(imageCall.waits) = imageCall.max_retries - 1
                    /\ imageCall.events[Len(imageCall.events)] = "call"
                    /\ \A k \in 1..(Len(imageCall.events) - 1) :
                          imageCall.events[k] # imageCall.events[k + 1]
           /\ imageCall.max_retries <= 0
                 => /\ imageCall.calls = 0
                    /\ imageCall.waits = <<>>
                    /\ imageCall.events = <<>>
                    /\ imageCall.result.error = LoopExitError(imageCall.max_retries)

C38_EveryAttemptFailed ==
    /\ imageCall.pc = "done"
    /\ imageCall.max_retries >= 2
    /\ Len(imageCall.failures) = imageCall.max_retries
    /\ imageCall.calls = imageCall.max_retries
    /\ Len(imageCall.waits) = imageCall.max_retries - 1

(* C39.  Each page has its own retry budget: the attempt counter counts    *)
(* the failures of the current page only, every page gets up to            *)
(* OPENAI_MAX_RETRIES calls whatever happened on the pages before it, a    *)
(* page is given up only after OPENAI_MAX_RETRIES failures of its own, and *)
(* an extraction of N pages makes at most N * OPENAI_MAX_RETRIES calls.    *)
C39_PerPageBudget ==
    LET RECURSIVE Calls(_)
        Calls(k) == IF k = 0 THEN 0 ELSE ocrCall.log[k].calls + Calls(k - 1)
    IN  /\ ocrCall.pc = "page"
              => /\ ocrCall.retries = Len(ocrCall.log[ocrCall.page_num].failures)
                 /\ ocrCall.retries < OPENAI_MAX_RETRIES
        /\ \A k \in DOMAIN ocrCall.log :
              /\ ocrCall.log[k].calls <= OPENAI_MAX_RETRIES
              /\ ocrCall.log[k].raised # None
                    <=> Len(ocrCall.log[k].failures) = OPENAI_MAX_RETRIES
        /\ Calls(Len(ocrCall.log)) <= Len(ocrCall.images) * OPENAI_MAX_RETRIES

C39_FullBudgetAfterExhaustedPage ==
    /\ ocrCall.pc = "done"
    /\ Len(ocrCall.log) = 2
    /\ ocrCall.log[1].raised # None
    /\ ocrCall.log[1].calls = OPENAI_MAX_RETRIES
    /\ ocrCall.log[2].calls = OPENAI_MAX_RETRIES
    /\ ocrCall.log[2].raised = None

====
